---- MODULE Spec2Model ----
(***************************************************************************)
(* Tuigotchi Health: the task-due scheduling engine (task.rs,              *)
(* task_manager.rs), the tick handler of the interface (interface.rs) and  *)
(* the animation library's fallback resolution (interface/lil_guy.rs).     *)
(*                                                                         *)
(* Instants are integers counted in whole time units since an epoch; a     *)
(* calendar day has DayLen units and a time-of-day is 0 .. DayLen-1.       *)
(* Durations are integers in the same unit.                                *)
(***************************************************************************)
EXTENDS Integers, Sequences, FiniteSets, TLC

(* ------------------------------ bounds --------------------------------- *)
\* units in a calendar day
DayLen == 4
\* references of the schedule resolver range over 0 .. MaxRef
MaxRef == 8
\* Interval(d) schedules have d in 0 .. MaxInterval
MaxInterval == 3
\* the absolute instant at which the shifting zones change their offset
ShiftAt == 5
\* the keys given to Animations::get include Sad(0) .. Sad(MaxSadLevel)
MaxSadLevel == 4
\* a configuration lists at most MaxTasks tasks
MaxTasks == 2
\* the wall clock is read in 0 .. MaxNow
MaxNow == 5
\* the configured task_timeout and task_timeout_max are in 0 .. MaxTimeout
MaxTimeout == 2
\* the configuration is loaded at an instant in 0 .. MaxStart
MaxStart == 0
\* the resolution of the fixed-point stand-in for f32: 1.0 is Scale
Scale == 100
\* the texts given to Animations::load have at most MaxTextLines lines
MaxTextLines == 4
\* the monotonic clock of the companion is read in 0 .. MaxMono
MaxMono == 4
\* at most MaxQueue completed types wait for their task animation
MaxQueue == 2
\* consecutive ticks of the companion are 1 .. MaxStep instants apart
MaxStep == 2

(* ------------------------- program constants --------------------------- *)
\* the highest sadness level of the animation files' vocabulary ("sad/1")
MaxParsableSad == 1

VARIABLES
    tz,         \* the process's local time zone: [at, delta], delta = 0 for a fixed offset
    schedule,   \* resolver call: the Schedule (self)
    reference,  \* resolver call: the reference instant (now)
    due,        \* resolver call: what next_instance returned, or Pending
    anims,      \* Animations.anims: the loaded keys, each with its frames
    get_arg,    \* Animations::get: the key the outermost call was given
    get_key,    \* Animations::get: the key of the innermost call in progress
    get_hops,   \* Animations::get: recursive calls made so far
    get_seen,   \* Animations::get: the keys looked up so far, in order
    get_result, \* Animations::get: Ok(frames), Err, or Pending while it runs
    text,       \* Animations::load: the text it is given, a sequence of lines
    load_result, \* Animations::load: Ok(anims), Err, Panic, or Pending before the call
    lil_guy,    \* LilGuyState: [current_animation, animation_frame, next_frame_time,
                \*               idle_animation_change, pos]
    idle_animation_time, \* LilGuyState.idle_animation_time: the range [start, end)
    lil_call,   \* the last call of LilGuyState::update: its arguments, its `now`, the
                \* rule that selected the key and what it returned
    conf,       \* Config: [task_timeout, task_timeout_max]
    ledger,     \* TaskManager.tasks: sequence of Task [ty, schedule, last_done]
    task_threshold, \* TaskManager.task_threshold
    clock,      \* the wall clock (Local::now()) as last handed to the TaskManager: update's `now`
    tasks,      \* InterfaceState.tasks; for a bare TaskManager, the Tasks its last call returned
    call,       \* the last call made on the TaskManager: [op, ty, st]
    keybinds,   \* InterfaceState.keybinds: key character -> TaskType
    task_timeout,     \* InterfaceState.task_timeout
    task_timeout_max, \* InterfaceState.task_timeout_max
    happiness,  \* update's local `happiness`, in units of 1/Scale
    mood,       \* InterfaceState.mood (its text)
    pressed,    \* update's `task_type`: the type the last tick's key press completed, if any
    status,     \* not_main: "start" before InterfaceState::new, "running" in the loop,
                \* "quit", "error" or "panic" after it
    failure,    \* the step whose error or panic ended not_main, "none" otherwise
    terminal,   \* the terminal: [alternate_screen, cursor_hidden, raw_mode]
    notifications,          \* InterfaceState.notifications: the types of the handles kept
    task_animations,        \* InterfaceState.task_animations
    current_task_animation, \* InterfaceState.current_task_animation: {} or {[ty, end_time]}
    task_animation_duration, \* InterfaceState.task_animation_duration
    rendered    \* the last tick's render: "ok", "error" (logged), "none" when it did not run

schedVars == <<tz, schedule, reference, due>>
animVars == <<anims, get_arg, get_key, get_hops, get_seen, get_result>>
loadVars == <<text, load_result>>
lilVars == <<lil_guy, idle_animation_time, lil_call>>
managerVars == <<conf, ledger, task_threshold, clock, tasks, call>>
uiVars == <<failure, terminal, notifications, task_animations, current_task_animation,
            task_animation_duration, rendered>>
ifaceVars == <<keybinds, task_timeout, task_timeout_max, happiness, mood, pressed, status, uiVars>>
vars == <<schedVars, animVars, loadVars, lilVars, managerVars, ifaceVars>>

(* ------------------------------ time zone ------------------------------ *)
\* A zone with a fixed offset, one that springs forward by one unit at ShiftAt
\* (a local instant that does not exist) and one that falls back by one unit
\* (a local instant that exists twice).
NoShift == [at |-> 0, delta |-> 0]
Zones == {NoShift, [at |-> ShiftAt, delta |-> 1], [at |-> ShiftAt, delta |-> -1]}

\* naive local wall-clock reading of an absolute instant
Local(u) == IF tz.delta # 0 /\ u >= tz.at THEN u + tz.delta ELSE u

\* LocalResult: the absolute instants whose local reading is l (none, one or two)
FromLocal(l) == {u \in {l, l - tz.delta} : u >= 0 /\ Local(u) = l}

SetMin(S) == CHOOSE x \in S : \A y \in S : x <= y

\* now.with_time(t): the time-of-day replaced on now's local calendar day
WithTime(u, t) == FromLocal((Local(u) \div DayLen) * DayLen + t)

\* now.duration_round(Duration::days(1)): to the nearest local day boundary
DurationRound(u) ==
    LET down == Local(u) % DayLen
    IN  IF down = 0 THEN u
        ELSE IF DayLen - down <= down THEN u + (DayLen - down)
        ELSE u - down

\* .earliest().unwrap_or_else(|| now.duration_round(...).unwrap())
EarliestOrRound(res, u) == IF res = {} THEN DurationRound(u) ELSE SetMin(res)

(* --------------------------- Schedule (task.rs) ------------------------ *)
Times(set) == [kind |-> "Times", times |-> set, interval |-> 0]
Interval(d) == [kind |-> "Interval", times |-> {}, interval |-> d]

Ok(v) == [st |-> "Ok", val |-> v]
Err == [st |-> "Err", val |-> 0]
Panic == [st |-> "Panic", val |-> 0]
Pending == [st |-> "Pending", val |-> 0]

\* a cursor opened with an inclusive bound (Bound::Included)
PeekNextIncluded(times, tod) ==
    LET later == {t \in times : t >= tod}
    IN  IF later = {} THEN {} ELSE {SetMin(later)}

\* times.lower_bound(Bound::Excluded(&now.time())).peek_next()
PeekNext(times, tod) ==
    LET later == {t \in times : t > tod}
    IN  IF later = {} THEN {} ELSE {SetMin(later)}

\* the Times arm of next_instance
NextTimes(times, ref) ==
    LET nxt == PeekNext(times, Local(ref) % DayLen)
    IN  IF nxt # {}
        THEN Ok(EarliestOrRound(WithTime(ref, SetMin(nxt)), ref))
        ELSE LET tomorrow == FromLocal(Local(ref) + DayLen)
             IN  IF Cardinality(tomorrow) # 1 THEN Panic
                 ELSE IF times = {} THEN Err
                 ELSE Ok(EarliestOrRound(WithTime(SetMin(tomorrow), SetMin(times)), ref))

\* an interval counted from the start of the reference's day
NextIntervalDayAligned(interval, ref) == Ok(ref - (Local(ref) % DayLen) + interval)

\* the Interval arm of next_instance
NextInterval(interval, ref) == Ok(ref + interval)

NextInstance(sch, ref) ==
    IF sch.kind = "Times" THEN NextTimes(sch.times, ref)
    ELSE NextInterval(sch.interval, ref)


(* ---------------- TaskType and LilGuyAnimation (lil_guy.rs) ------------ *)
\* TaskType: two of the built-in categories, Other("") and an Other with a text
General == "Other()"
BuiltinTypes == {"Eat", "Drink"}
TaskTypes == BuiltinTypes \cup {General, "Other(stretch)"}

Key(kind, level, ty) == [kind |-> kind, level |-> level, ty |-> ty]
Idle == Key("Idle", 0, "-")
Walk == Key("Walk", 0, "-")
WalkLeft == Key("WalkLeft", 0, "-")
WalkRight == Key("WalkRight", 0, "-")
Sad(n) == Key("Sad", n, "-")
Want(t) == Key("Want", 0, t)
TaskAnim(t) == Key("Task", 0, t)

\* every value of the enum, Sad levels up to MaxSadLevel
AllKeys ==
    {Idle, Walk, WalkLeft, WalkRight} \cup {Sad(n) : n \in 0 .. MaxSadLevel}
        \cup {Want(t) : t \in TaskTypes} \cup {TaskAnim(t) : t \in TaskTypes}

\* the keys from_str can produce: the vocabulary of the animation files
ParsableKeys ==
    {Idle, Walk, WalkLeft, WalkRight} \cup {Sad(n) : n \in 0 .. MaxParsableSad}
        \cup {Want(t) : t \in BuiltinTypes}
        \cup {TaskAnim(t) : t \in BuiltinTypes \cup {General}}

\* a fallback table in which a missing Walk is looked up as WalkLeft
FallbackWalkCycle(a) ==
    IF a.kind = "WalkLeft" THEN [st |-> "Ok", key |-> Walk]
    ELSE IF a.kind = "WalkRight" THEN [st |-> "Ok", key |-> Walk]
    ELSE IF a.kind = "Walk" THEN [st |-> "Ok", key |-> WalkLeft]
    ELSE IF a.kind = "Sad" /\ a.level > 0 THEN [st |-> "Ok", key |-> Sad(a.level - 1)]
    ELSE IF a.kind = "Want" /\ a.ty # General THEN [st |-> "Ok", key |-> Sad(0)]
    ELSE IF a.kind = "Task" /\ a.ty # General THEN [st |-> "Ok", key |-> TaskAnim(General)]
    ELSE IF a.kind = "Idle" THEN [st |-> "Err", key |-> Idle]
    ELSE [st |-> "Ok", key |-> Idle]

\* a fallback table in which Want(t) goes straight to Idle
FallbackWantIdle(a) ==
    IF a.kind = "WalkLeft" THEN [st |-> "Ok", key |-> Walk]
    ELSE IF a.kind = "WalkRight" THEN [st |-> "Ok", key |-> Walk]
    ELSE IF a.kind = "Sad" /\ a.level > 0 THEN [st |-> "Ok", key |-> Sad(a.level - 1)]
    ELSE IF a.kind = "Task" /\ a.ty # General THEN [st |-> "Ok", key |-> TaskAnim(General)]
    ELSE IF a.kind = "Idle" THEN [st |-> "Err", key |-> Idle]
    ELSE [st |-> "Ok", key |-> Idle]

\* LilGuyAnimation::fallback: the match arms in order
Fallback(a) ==
    IF a.kind = "WalkLeft" THEN [st |-> "Ok", key |-> Walk]
    ELSE IF a.kind = "WalkRight" THEN [st |-> "Ok", key |-> Walk]
    ELSE IF a.kind = "Sad" /\ a.level > 0 THEN [st |-> "Ok", key |-> Sad(a.level - 1)]
    ELSE IF a.kind = "Want" /\ a.ty # General THEN [st |-> "Ok", key |-> Sad(0)]
    ELSE IF a.kind = "Task" /\ a.ty # General THEN [st |-> "Ok", key |-> TaskAnim(General)]
    ELSE IF a.kind = "Idle" THEN [st |-> "Err", key |-> Idle]
    ELSE [st |-> "Ok", key |-> Idle]

\* AnimationFrame {duration, lines}; every key of a library has art of its own
FramesFor(k) == << [duration |-> k.level + 1, lines |-> <<k.kind, k.ty>>] >>

\* the libraries Animations::load can build: any set of parsable keys
Library(keys) == [k \in keys |-> FramesFor(k)]
Libraries == {Library(keys) : keys \in SUBSET ParsableKeys}

NoFrames == << >>
NoGetCall ==
    /\ anims = Library({Idle})
    /\ get_arg = Idle /\ get_key = Idle /\ get_hops = 0 /\ get_seen = << >>
    /\ get_result = [st |-> "Idle", frames |-> NoFrames]

(* --------------------- Animations::load (lil_guy.rs) ------------------- *)
\* A line of the text is [head, rest]: head is "animation ", "frame " or "" (a line
\* that starts with neither), rest is what follows the head.
AnimationHead == "animation "
FrameHead == "frame "
Line(head, rest) == [head |-> head, rest |-> rest]

\* str::to_lowercase on the words of the texts below
ToLowercase(s) == IF s = "Walk" THEN "walk" ELSE s

\* LilGuyAnimation::from_str: the closed vocabulary; anything else is an error
FromStr(s) ==
    LET l == ToLowercase(s)
    IN  CASE l = "idle" -> [st |-> "Ok", key |-> Idle]
          [] l = "walk" -> [st |-> "Ok", key |-> Walk]
          [] l = "walk/left" -> [st |-> "Ok", key |-> WalkLeft]
          [] l = "walk/right" -> [st |-> "Ok", key |-> WalkRight]
          [] l = "sad/0" -> [st |-> "Ok", key |-> Sad(0)]
          [] l = "sad/1" -> [st |-> "Ok", key |-> Sad(1)]
          [] l = "want/eat" -> [st |-> "Ok", key |-> Want("Eat")]
          [] l = "want/drink" -> [st |-> "Ok", key |-> Want("Drink")]
          [] l = "task/general" -> [st |-> "Ok", key |-> TaskAnim(General)]
          [] l = "task/eat" -> [st |-> "Ok", key |-> TaskAnim("Eat")]
          [] l = "task/drink" -> [st |-> "Ok", key |-> TaskAnim("Drink")]
          [] OTHER -> [st |-> "Err", key |-> Idle]

\* line.trim_start_matches(prefix): the rest of a line that starts with the prefix,
\* the whole line otherwise (a line with another head is no word of any vocabulary)
TrimStartMatches(line, prefix) ==
    IF line.head = prefix THEN line.rest
    ELSE IF line.head = "" THEN line.rest
    ELSE "?"

\* s.trim_end_matches("ms").parse::<f64>(): the numbers written in the texts below
ParseMs(s) ==
    CASE s \in {"1ms", "1"} -> [st |-> "Ok", ms |-> 1]
      [] s \in {"2ms", "2"} -> [st |-> "Ok", ms |-> 2]
      [] s \in {"-1ms", "-1"} -> [st |-> "Ok", ms |-> -1]
      [] OTHER -> [st |-> "Err", ms |-> 0]

\* slice.chunk_by(|_a, b| !b.starts_with(prefix)): a new chunk starts at every line
\* but the first that starts with the prefix
RECURSIVE ChunkBy(_, _)
ChunkBy(lines, prefix) ==
    IF lines = << >> THEN << >>
    ELSE LET starts == {i \in 2 .. Len(lines) : lines[i].head = prefix}
             end == IF starts = {} THEN Len(lines) ELSE SetMin(starts) - 1
         IN  <<SubSeq(lines, 1, end)>> \o ChunkBy(SubSeq(lines, end + 1, Len(lines)), prefix)

\* the closure over frame_lines: the header's duration, then the art rows;
\* Duration::from_secs_f64 panics on a negative number
LoadFrame(frame_lines) ==
    LET frame_time == ParseMs(TrimStartMatches(frame_lines[1], FrameHead))
    IN  IF frame_time.st = "Err" THEN [st |-> "Err", frame |-> << >>]
        ELSE IF frame_time.ms < 0 THEN [st |-> "Panic", frame |-> << >>]
        ELSE [st |-> "Ok",
              frame |-> [duration |-> frame_time.ms,
                         lines |-> [i \in 1 .. (Len(frame_lines) - 1) |-> frame_lines[i + 1].rest]]]

\* .collect::<Result<_>>() over the frames of a block: the first failure ends it
RECURSIVE LoadFrames(_, _)
LoadFrames(chunks, acc) ==
    IF chunks = << >> THEN [st |-> "Ok", frames |-> acc]
    ELSE LET f == LoadFrame(Head(chunks))
         IN  IF f.st # "Ok" THEN [st |-> f.st, frames |-> NoFrames]
             ELSE LoadFrames(Tail(chunks), Append(acc, f.frame))

\* the closure over animation_lines: the key is parsed first, then the frames
LoadAnimation(animation_lines) ==
    LET animation_name == FromStr(TrimStartMatches(animation_lines[1], AnimationHead))
        animation_frames ==
            LoadFrames(ChunkBy(SubSeq(animation_lines, 2, Len(animation_lines)), FrameHead), << >>)
    IN  IF animation_name.st = "Err" THEN [st |-> "Err", key |-> Idle, frames |-> NoFrames]
        ELSE [st |-> animation_frames.st, key |-> animation_name.key,
              frames |-> animation_frames.frames]

\* .collect::<Result<HashMap<_, _>>>(): the first failure ends it, a later block
\* replaces an earlier one of the same key
RECURSIVE LoadBlocks(_, _)
LoadBlocks(chunks, acc) ==
    IF chunks = << >> THEN [st |-> "Ok", anims |-> acc]
    ELSE LET a == LoadAnimation(Head(chunks))
         IN  IF a.st # "Ok" THEN [st |-> a.st, anims |-> << >>]
             ELSE LoadBlocks(Tail(chunks), (a.key :> a.frames) @@ acc)

\* Animations::load
Load(t) == LoadBlocks(ChunkBy(t, AnimationHead), << >>)

NoLoad == text = << >> /\ load_result = [st |-> "Pending", anims |-> << >>]

(* ------------------------ TaskManager (task_manager.rs) ---------------- *)
Task(ty, sch, last_done) == [ty |-> ty, schedule |-> sch, last_done |-> last_done]
TaskDue(ty, when) == [ty |-> ty, when |-> when]
EmptyTasks == [past |-> << >>, current |-> << >>, upcoming |-> << >>]

\* TaskManager::new: the threshold is the configured task_timeout
ManagerThreshold(c) == c.task_timeout

\* the three-way test with the window's end counted as still current
PushInclusive(acc, d, thr, now) ==
    IF d.when > now THEN [acc EXCEPT !.upcoming = Append(@, d)]
    ELSE IF now - d.when <= thr THEN [acc EXCEPT !.current = Append(@, d)]
    ELSE [acc EXCEPT !.past = Append(@, d)]

\* the three tests made independently of each other
PushIndependent(acc, d, thr, now) ==
    LET a1 == IF d.when >= now THEN [acc EXCEPT !.upcoming = Append(@, d)] ELSE acc
        a2 == IF d.when <= now /\ now - d.when < thr
              THEN [a1 EXCEPT !.current = Append(@, d)] ELSE a1
    IN  IF now - d.when > thr THEN [a2 EXCEPT !.past = Append(@, d)] ELSE a2

\* the body of the loop of tasks(): one TaskDue pushed on one of the three lists
Push(acc, d, thr, now) ==
    IF d.when > now THEN [acc EXCEPT !.upcoming = Append(@, d)]
    ELSE IF now - d.when < thr THEN [acc EXCEPT !.current = Append(@, d)]
    ELSE [acc EXCEPT !.past = Append(@, d)]

\* TaskManager::tasks: the loop over the ledger; `?` returns the first failure
RECURSIVE TasksLoop(_, _, _, _, _)
TasksLoop(led, i, acc, thr, now) ==
    IF i > Len(led) THEN [st |-> "Ok", val |-> acc]
    ELSE LET r == NextInstance(led[i].schedule, led[i].last_done)
         IN  IF r.st # "Ok" THEN [st |-> r.st, val |-> EmptyTasks]
             ELSE TasksLoop(led, i + 1, Push(acc, TaskDue(led[i].ty, r.val), thr, now), thr, now)

\* a classification that leaves out the tasks whose resolution fails
ManagerTasksSkipFailed(led, thr, now) ==
    TasksLoop(SelectSeq(led, LAMBDA t : NextInstance(t.schedule, t.last_done).st = "Ok"),
              1, EmptyTasks, thr, now)

\* a classification whose due instants are resolved from the instant of the call
\* instead of from last_done
ManagerTasksFromNow(led, thr, now) ==
    TasksLoop([i \in 1 .. Len(led) |-> [led[i] EXCEPT !.last_done = now]],
              1, EmptyTasks, thr, now)

ManagerTasks(led, thr, now) == TasksLoop(led, 1, EmptyTasks, thr, now)

\* a completion that leaves last_done as it was
CompleteNothing(t, now) == t

\* Task::complete
Complete(t, now) == [t EXCEPT !.last_done = now]

\* a completion that stops at the first task of the type
CompleteTasksFirstOnly(led, ty, now) ==
    [i \in 1 .. Len(led) |->
        IF led[i].ty = ty /\ \A j \in 1 .. (i - 1) : led[j].ty # ty
        THEN Complete(led[i], now) ELSE led[i]]

\* TaskManager::complete_tasks
CompleteTasks(led, ty, now) ==
    [i \in 1 .. Len(led) |-> IF led[i].ty = ty THEN Complete(led[i], now) ELSE led[i]]

\* the tasks a configuration can list: recurring types, schedules of both kinds,
\* an empty Times set and a zero interval included
TaskKinds ==
    { [ty |-> "Eat", schedule |-> Times({1, 2})],
      [ty |-> "Eat", schedule |-> Interval(MaxInterval - 1)],
      [ty |-> "Other(stretch)", schedule |-> Interval(0)],
      [ty |-> "Drink", schedule |-> Times({})] }

RECURSIVE SeqsUpTo(_, _)
SeqsUpTo(S, n) ==
    IF n = 0 THEN {<< >>}
    ELSE LET shorter == SeqsUpTo(S, n - 1)
         IN  shorter \cup {Append(q, x) : q \in shorter, x \in S}

\* Config.tasks as deserialized at `at`: every last_done is Local::now()
Ledgers(at) ==
    {[i \in 1 .. Len(q) |-> Task(q[i].ty, q[i].schedule, at)] : q \in SeqsUpTo(TaskKinds, MaxTasks)}

Confs == [task_timeout : 0 .. MaxTimeout, task_timeout_max : 0 .. MaxTimeout]

(* ---------------------- InterfaceState (interface.rs) ------------------ *)
\* InterfaceState::new: the two timeout fields
IfaceTaskTimeout(c) == c.task_timeout_max
IfaceTaskTimeoutMax(c) == c.task_timeout_max

\* TaskType::keybind: a letter for a built-in type, none for Other(_)
Keybind(ty) ==
    IF ty = "Eat" THEN {"e"} ELSE IF ty = "Drink" THEN {"d"} ELSE {}

\* (b'0' + number_keybind as u8) as char
DigitChars == <<"1", "2", "3", "4", "5", "6", "7", "8", "9", ":", ";", "<">>

\* the key table of a tick: current then past, later entries replacing earlier
\* ones under the same key (collect into a BTreeMap)
RECURSIVE KeybindsLoop(_, _, _, _)
KeybindsLoop(list, i, number_keybind, acc) ==
    IF i > Len(list) THEN acc
    ELSE LET explicit == Keybind(list[i].ty)
             n == IF explicit = {} THEN number_keybind + 1 ELSE number_keybind
             key == IF explicit = {} THEN DigitChars[n] ELSE CHOOSE k \in explicit : TRUE
         IN  KeybindsLoop(list, i + 1, n, (key :> list[i].ty) @@ acc)

Keybinds(ts) == KeybindsLoop(ts.current \o ts.past, 1, 0, << >>)

\* the events of a tick: poll timed out, quit ('q' or ctrl-c), a character key,
\* or any other event
KeyChars == {"e", "1", "2"}
Events == {"none", "quit", "other"} \cup KeyChars

\* self.keybinds.remove(&key): the type to complete, if the key is bound
Pressed(kb, e) == IF e \in KeyChars /\ e \in DOMAIN kb THEN {kb[e]} ELSE {}

KeybindsAfter(kb, e) ==
    IF Pressed(kb, e) = {} THEN kb ELSE [k \in (DOMAIN kb) \ {e} |-> kb[k]]

LedgerAfter(led, kb, e, now) ==
    IF Pressed(kb, e) = {} THEN led
    ELSE CompleteTasks(led, CHOOSE t \in Pressed(kb, e) : TRUE, now)

\* the types update hands to notify_tasks: new entries of current, then of past
InSeq(x, q) == \E i \in 1 .. Len(q) : q[i] = x
\* notifications for the new entries of past only
NotifyTasksPastOnly(new, old) ==
    SelectSeq(new.past, LAMBDA d : ~InSeq(d, old.past))

NotifyTasks(new, old) ==
    SelectSeq(new.current, LAMBDA d : ~InSeq(d, old.current))
        \o SelectSeq(new.past, LAMBDA d : ~InSeq(d, old.past))

\* f32 arithmetic in units of 1/Scale; every value from Infinity up stands for +inf
Infinity == Scale * Scale * Scale
\* the largest r in lo .. hi with r * r <= n, by bisection
RECURSIVE ISqrtIn(_, _, _)
ISqrtIn(n, lo, hi) ==
    IF lo >= hi THEN lo
    ELSE LET mid == (lo + hi + 1) \div 2
         IN  IF mid * mid <= n THEN ISqrtIn(n, mid, hi) ELSE ISqrtIn(n, lo, mid - 1)

ISqrt(n) == ISqrtIn(n, 0, n)

\* a clamp that returns its argument
ClampNone(x, lo, hi) == x

\* f32::clamp
Clamp(x, lo, hi) == IF x < lo THEN lo ELSE IF x > hi THEN hi ELSE x

\* ((secs - task_timeout) / task_timeout_max).max(0.0).sqrt(); a division by zero
\* gives +inf, -inf or NaN, and max(0.0) of -inf or NaN is 0.0
Penalty(secs, timeout, timeout_max) ==
    IF timeout_max = 0 THEN (IF secs - timeout > 0 THEN Infinity ELSE 0)
    ELSE IF secs - timeout <= 0 THEN 0
    ELSE ISqrt(((secs - timeout) * Scale * Scale) \div timeout_max)

RECURSIVE PenaltySum(_, _, _, _)
PenaltySum(past, now, timeout, timeout_max) ==
    IF past = << >> THEN 0
    ELSE Penalty(now - Head(past).when, timeout, timeout_max)
            + PenaltySum(Tail(past), now, timeout, timeout_max)

\* update's happiness: 1.0 - sum.clamp(0.0, 1.0)
Happiness(past, now, timeout, timeout_max) ==
    Scale - Clamp(PenaltySum(past, now, timeout, timeout_max), 0, Scale)

\* update's mood: the first matching range
Mood(h) ==
    IF 10 * h <= Scale THEN "Very Sad"
    ELSE IF 10 * h <= 4 * Scale THEN "Sad"
    ELSE IF 10 * h <= 6 * Scale THEN "Neutral"
    ELSE IF 10 * h <= 9 * Scale THEN "Happy"
    ELSE "Very Happy"

(* ------------------- Animations and LilGuyState (lil_guy.rs) ----------- *)
SetMax(S) == CHOOSE x \in S : \A y \in S : x >= y

\* Animations::load, after the parse: the highest Sad level, 0 without any
MaxSadness(an) ==
    LET levels == {k.level : k \in {a \in DOMAIN an : a.kind = "Sad"}}
    IN  IF levels = {} THEN 0 ELSE SetMax(levels)

\* Animations::load, after the parse: the longest art row and the highest frame
MaxBounds(an) ==
    LET frames == UNION {{an[k][f] : f \in 1 .. Len(an[k])} : k \in DOMAIN an}
        widths == UNION {{Len(fr.lines[l]) : l \in 1 .. Len(fr.lines)} : fr \in frames}
        heights == {Len(fr.lines) : fr \in frames}
    IN  << IF widths = {} THEN 1 ELSE SetMax(widths),
           IF heights = {} THEN 1 ELSE SetMax(heights) >>

\* Animations::get_raw: the frames of a key that is loaded, nothing otherwise
GetRaw(an, k) == IF k \in DOMAIN an THEN {an[k]} ELSE {}

\* Animations::get as a function: the frames of the first loaded key along the
\* fallbacks, an error when the fallback of Idle is asked for
RECURSIVE Get(_, _)
Get(an, k) ==
    IF k \in DOMAIN an THEN [st |-> "Ok", frames |-> an[k]]
    ELSE IF Fallback(k).st = "Err" THEN [st |-> "Err", frames |-> NoFrames]
    ELSE Get(an, Fallback(k).key)

\* LilGuyState::new at the monotonic instant t
LilGuyNew(t) ==
    [current_animation |-> Idle, animation_frame |-> 0, next_frame_time |-> t,
     idle_animation_change |-> t, pos |-> <<0, 0>>]

\* the sadness level of the unhappiness rule: the floor of
\* (1 - happiness / 0.6) * (max_sadness + 1), clamped to 0 ..= 1
SadLevel(h, max_sadness) ==
    Clamp(((6 * Scale - 10 * h) * (max_sadness + 1)) \div (6 * Scale), 0, 1)

\* a lookup of the wanted animation that follows the fallbacks
FindWantResolved(an, wants) ==
    LET hits == {i \in 1 .. Len(wants) : Get(an, Want(wants[i].ty)).st = "Ok"}
    IN  IF hits = {} THEN {} ELSE {wants[SetMin(hits)].ty}

\* wants.iter().find_map(..get_raw(Want(t.ty))..): the type of the first overdue
\* task whose Want animation is loaded
FindWant(an, wants) ==
    LET hits == {i \in 1 .. Len(wants) : GetRaw(an, Want(wants[i].ty)) # {}}
    IN  IF hits = {} THEN {} ELSE {wants[SetMin(hits)].ty}

\* the outcomes of the idle reroll's random draws
Rolls == {"left", "right", "idle", "none"}

\* a rule order in which an ongoing task is looked at before the bounds
SelectTaskFirst(lg, an, idle_time, h, ongoing, room, wants, now, rnd) ==
    IF ongoing # {}
    THEN [st |-> "Ok", rule |-> "task", new |-> {TaskAnim(CHOOSE t \in ongoing : TRUE)},
          idle_animation_change |-> lg.idle_animation_change]
    ELSE IF lg.pos[1] < room.start
    THEN [st |-> "Ok", rule |-> "boundary", new |-> {WalkRight},
          idle_animation_change |-> lg.idle_animation_change]
    ELSE IF lg.pos[1] + MaxBounds(an)[1] > room.end
    THEN [st |-> "Ok", rule |-> "boundary", new |-> {WalkLeft},
          idle_animation_change |-> lg.idle_animation_change]
    ELSE [st |-> "Ok", rule |-> "none", new |-> {},
          idle_animation_change |-> lg.idle_animation_change]

\* a boundary correction that walks further out of the room
SelectOutwards(lg, an, idle_time, h, ongoing, room, wants, now, rnd) ==
    IF lg.pos[1] < room.start
    THEN [st |-> "Ok", rule |-> "boundary", new |-> {WalkLeft},
          idle_animation_change |-> lg.idle_animation_change]
    ELSE IF lg.pos[1] + MaxBounds(an)[1] > room.end
    THEN [st |-> "Ok", rule |-> "boundary", new |-> {WalkRight},
          idle_animation_change |-> lg.idle_animation_change]
    ELSE [st |-> "Ok", rule |-> "none", new |-> {},
          idle_animation_change |-> lg.idle_animation_change]

\* update, lines 223-266: the if / else-if chain that selects new_animation; the
\* reroll also redraws idle_animation_change (gen_range panics on an empty range)
Select(lg, an, idle_time, h, ongoing, room, wants, now, rnd) ==
    LET keep == lg.idle_animation_change
    IN  IF lg.pos[1] < room.start
        THEN [st |-> "Ok", rule |-> "boundary", new |-> {WalkRight}, idle_animation_change |-> keep]
        ELSE IF lg.pos[1] + MaxBounds(an)[1] > room.end
        THEN [st |-> "Ok", rule |-> "boundary", new |-> {WalkLeft}, idle_animation_change |-> keep]
        ELSE IF ongoing # {}
        THEN [st |-> "Ok", rule |-> "task", new |-> {TaskAnim(CHOOSE t \in ongoing : TRUE)},
              idle_animation_change |-> keep]
        ELSE IF 10 * h < 6 * Scale
        THEN LET anim == FindWant(an, wants)
             IN  [st |-> "Ok", rule |-> "unhappy",
                  new |-> IF anim # {} THEN {Want(CHOOSE t \in anim : TRUE)}
                          ELSE {Sad(SadLevel(h, MaxSadness(an)))},
                  idle_animation_change |-> keep]
        ELSE IF lg.idle_animation_change < now
        THEN IF idle_time.start >= idle_time.end
             THEN [st |-> "Panic", rule |-> "reroll", new |-> {}, idle_animation_change |-> keep]
             ELSE [st |-> "Ok", rule |-> "reroll",
                   new |-> CASE rnd.roll = "left" -> {WalkLeft}
                             [] rnd.roll = "right" -> {WalkRight}
                             [] rnd.roll = "idle" -> {Idle}
                             [] OTHER -> {},
                   idle_animation_change |-> now + rnd.dur]
        ELSE IF ongoing = {} /\ lg.current_animation.kind = "Task"
        THEN [st |-> "Ok", rule |-> "revert", new |-> {Idle}, idle_animation_change |-> keep]
        ELSE [st |-> "Ok", rule |-> "none", new |-> {}, idle_animation_change |-> keep]

\* a transition step that restarts the animation whenever a key is selected
SwitchAlwaysReset(lg, sel, now) ==
    LET redrawn == [lg EXCEPT !.idle_animation_change = sel.idle_animation_change]
    IN  IF sel.new # {}
        THEN [redrawn EXCEPT !.current_animation = CHOOSE k \in sel.new : TRUE,
                             !.animation_frame = 0,
                             !.next_frame_time = now]
        ELSE redrawn

\* a transition step that does not leave a Task key for Idle
SwitchKeepTask(lg, sel, now) ==
    LET redrawn == [lg EXCEPT !.idle_animation_change = sel.idle_animation_change]
    IN  IF /\ sel.new # {} /\ lg.current_animation \notin sel.new
           /\ ~(lg.current_animation.kind = "Task" /\ sel.new = {Idle})
        THEN [redrawn EXCEPT !.current_animation = CHOOSE k \in sel.new : TRUE,
                             !.animation_frame = 0,
                             !.next_frame_time = now]
        ELSE redrawn

\* update, lines 267-273: a selected key that differs from the current one replaces it
Switch(lg, sel, now) ==
    LET redrawn == [lg EXCEPT !.idle_animation_change = sel.idle_animation_change]
    IN  IF sel.new # {} /\ lg.current_animation \notin sel.new
        THEN [redrawn EXCEPT !.current_animation = CHOOSE k \in sel.new : TRUE,
                             !.animation_frame = 0,
                             !.next_frame_time = now]
        ELSE redrawn

\* a frame advance in which only a walk to the left moves
AdvanceLeftOnly(lg, anim, now) ==
    IF now > lg.next_frame_time /\ anim # << >>
    THEN LET next == IF lg.animation_frame + 1 >= Len(anim) THEN 0 ELSE lg.animation_frame + 1
         IN  [st |-> "Ok",
              lg |-> [lg EXCEPT !.animation_frame = next,
                                !.next_frame_time = now + anim[next + 1].duration,
                                !.pos = CASE lg.current_animation = WalkLeft -> <<@[1] - 1, @[2]>>
                                          [] OTHER -> @]]
    ELSE [st |-> "Ok", lg |-> lg]

\* a frame advance that moves a walking companion by two units
AdvanceTwoUnits(lg, anim, now) ==
    IF now > lg.next_frame_time /\ anim # << >>
    THEN LET next == IF lg.animation_frame + 1 >= Len(anim) THEN 0 ELSE lg.animation_frame + 1
         IN  [st |-> "Ok",
              lg |-> [lg EXCEPT !.animation_frame = next,
                                !.next_frame_time = now + anim[next + 1].duration,
                                !.pos = CASE lg.current_animation = WalkLeft -> <<@[1] - 2, @[2]>>
                                          [] lg.current_animation = WalkRight -> <<@[1] + 2, @[2]>>
                                          [] OTHER -> @]]
    ELSE [st |-> "Ok", lg |-> lg]

\* a frame advance that does not wrap
AdvanceNoWrap(lg, anim, now) ==
    IF now > lg.next_frame_time /\ anim # << >>
    THEN [st |-> "Ok",
          lg |-> [lg EXCEPT !.animation_frame = @ + 1,
                            !.next_frame_time = now + anim[1].duration]]
    ELSE [st |-> "Ok", lg |-> lg]

\* a frame advance that also fires at the deadline itself
AdvanceAtDeadline(lg, anim, now) ==
    IF now >= lg.next_frame_time /\ anim # << >>
    THEN LET next == IF lg.animation_frame + 1 >= Len(anim) THEN 0 ELSE lg.animation_frame + 1
         IN  [st |-> "Ok",
              lg |-> [lg EXCEPT !.animation_frame = next,
                                !.next_frame_time = now + anim[next + 1].duration,
                                !.pos = CASE lg.current_animation = WalkLeft -> <<@[1] - 1, @[2]>>
                                          [] lg.current_animation = WalkRight -> <<@[1] + 1, @[2]>>
                                          [] OTHER -> @]]
    ELSE [st |-> "Ok", lg |-> lg]

\* update, lines 276-287: the next frame once now has passed the deadline; indexing
\* an animation without frames panics
Advance(lg, anim, now) ==
    IF now > lg.next_frame_time
    THEN LET next == IF lg.animation_frame + 1 >= Len(anim) THEN 0 ELSE lg.animation_frame + 1
         IN  IF anim = << >> THEN [st |-> "Panic", lg |-> lg]
             ELSE [st |-> "Ok",
                   lg |-> [lg EXCEPT !.animation_frame = next,
                                     !.next_frame_time = now + anim[next + 1].duration,
                                     !.pos = CASE lg.current_animation = WalkLeft -> <<@[1] - 1, @[2]>>
                                               [] lg.current_animation = WalkRight -> <<@[1] + 1, @[2]>>
                                               [] OTHER -> @]]
    ELSE [st |-> "Ok", lg |-> lg]

\* LilGuyState::update: what it returns and the state it leaves
LilGuyUpdate(lg, an, idle_time, h, ongoing, room, wants, now, rnd) ==
    LET sel == Select(lg, an, idle_time, h, ongoing, room, wants, now, rnd)
        switched == Switch(lg, sel, now)
        anim == Get(an, switched.current_animation)
    IN  IF sel.st = "Panic" THEN [st |-> "Panic", rule |-> sel.rule, lg |-> lg]
        ELSE IF anim.st = "Err" THEN [st |-> "Err", rule |-> sel.rule, lg |-> switched]
        ELSE [st |-> Advance(switched, anim.frames, now).st, rule |-> sel.rule,
              lg |-> Advance(switched, anim.frames, now).lg]

NoLilCall ==
    [st |-> "Pending", rule |-> "none", happiness |-> 0, ongoing_task |-> {},
     room_bounds |-> [start |-> 0, end |-> 0], wants |-> << >>, now |-> 0]

NoLilGuy ==
    /\ lil_guy = LilGuyNew(0)
    /\ idle_animation_time = [start |-> 0, end |-> 0]
    /\ lil_call = NoLilCall

\* the terminal as the process found it, and as InterfaceState::new leaves it
Released == [alternate_screen |-> FALSE, cursor_hidden |-> FALSE, raw_mode |-> FALSE]
Acquired == [alternate_screen |-> TRUE, cursor_hidden |-> TRUE, raw_mode |-> TRUE]

NoUi ==
    /\ failure = "none" /\ terminal = Released /\ notifications = << >>
    /\ task_animations = << >> /\ current_task_animation = {}
    /\ task_animation_duration = 0 /\ rendered = "none"

NoProgram ==
    /\ conf = [task_timeout |-> 0, task_timeout_max |-> 0]
    /\ ledger = << >> /\ task_threshold = 0 /\ clock = 0 /\ tasks = EmptyTasks
    /\ call = [op |-> "none", ty |-> "-", st |-> "Ok"]
    /\ keybinds = << >> /\ task_timeout = 0 /\ task_timeout_max = 0
    /\ happiness = 0 /\ mood = "" /\ pressed = {} /\ status = "off"
    /\ NoUi

(* --------------------------- Animations::get --------------------------- *)
\* one call of get, for a key drawn from the whole enum on a drawn library
InitAnimations ==
    /\ tz = NoShift /\ schedule = Interval(0) /\ reference = 0 /\ due = Pending
    /\ anims \in Libraries
    /\ get_arg \in AllKeys
    /\ get_key = get_arg
    /\ get_hops = 0
    /\ get_seen = <<get_arg>>
    /\ get_result = [st |-> "Pending", frames |-> NoFrames]
    /\ NoLoad
    /\ NoLilGuy
    /\ NoProgram

\* self.anims.get(anim) is Some(frames): Ok(frames), returned through every caller
GetFound ==
    /\ get_result.st = "Pending"
    /\ get_key \in DOMAIN anims
    /\ get_result' = [st |-> "Ok", frames |-> anims[get_key]]
    /\ UNCHANGED <<anims, get_arg, get_key, get_hops, get_seen>>
    /\ UNCHANGED <<schedVars, loadVars, lilVars, managerVars, ifaceVars>>

\* the key is not loaded and has a fallback: self.get(&anim.fallback()?)
GetFallback ==
    /\ get_result.st = "Pending"
    /\ get_key \notin DOMAIN anims
    /\ Fallback(get_key).st = "Ok"
    /\ get_key' = Fallback(get_key).key
    /\ get_hops' = get_hops + 1
    /\ get_seen' = Append(get_seen, Fallback(get_key).key)
    /\ UNCHANGED <<anims, get_arg, get_result>>
    /\ UNCHANGED <<schedVars, loadVars, lilVars, managerVars, ifaceVars>>

\* the key is not loaded and fallback() fails (Idle): the error is returned
GetNoFallback ==
    /\ get_result.st = "Pending"
    /\ get_key \notin DOMAIN anims
    /\ Fallback(get_key).st = "Err"
    /\ get_result' = [st |-> "Err", frames |-> NoFrames]
    /\ UNCHANGED <<anims, get_arg, get_key, get_hops, get_seen>>
    /\ UNCHANGED <<schedVars, loadVars, lilVars, managerVars, ifaceVars>>

NextAnimations == GetFound \/ GetFallback \/ GetNoFallback

SpecAnimations == InitAnimations /\ [][NextAnimations]_vars

NoRepeat(seq) == \A i, j \in 1 .. Len(seq) : i # j => seq[i] # seq[j]

\* C9 as stated: for every key, Sad(n) of every level included, the resolution never
\* visits a key twice, always can finish, takes at most 3 hops, and never recurses
\* for Idle.
C9_AtMostThreeHops ==
    /\ NoRepeat(get_seen)
    /\ get_hops <= 3
    /\ (get_arg = Idle => get_hops = 0)
    /\ (get_result.st = "Pending" => ENABLED NextAnimations)

\* C9 amended: the resolution never visits a key twice, a call in progress always
\* has a next step (so, over the finite chain, it terminates), resolving Idle makes
\* no recursive call, and the number of hops is at most 3 for every key except
\* Sad(n) with n >= 3, where it is at most n + 1.
C9_FallbackBounded ==
    /\ NoRepeat(get_seen)
    /\ get_hops = Len(get_seen) - 1
    /\ get_hops <= (IF get_arg.kind = "Sad" /\ get_arg.level >= 3
                    THEN get_arg.level + 1 ELSE 3)
    /\ (get_arg = Idle => get_hops = 0)
    /\ (get_result.st = "Pending" => ENABLED NextAnimations)

\* C9 witness: Sad(n), n >= 3, resolved to the Idle frames after n + 1 hops.
C9_Witness ==
    /\ get_result.st = "Ok" /\ get_arg.kind = "Sad" /\ get_arg.level >= 3
    /\ get_hops = get_arg.level + 1
    /\ get_key = Idle

\* the table of C10, written out
TableFallback(k) ==
    CASE k = WalkLeft -> Walk
      [] k = WalkRight -> Walk
      [] k.kind = "Sad" /\ k.level > 0 -> Sad(k.level - 1)
      [] k.kind = "Want" /\ k.ty # General -> Sad(0)
      [] k.kind = "Task" /\ k.ty # General -> TaskAnim(General)
      [] OTHER -> Idle

RECURSIVE TableChain(_)
TableChain(k) == IF k = Idle THEN <<Idle>> ELSE <<k>> \o TableChain(TableFallback(k))

LoadedAlong(chain) == {i \in 1 .. Len(chain) : chain[i] \in DOMAIN anims}

\* C10: get(key) returns the frames of the first key loaded in the library along
\* key, fallback(key), fallback(fallback(key)), ..., with the table WalkLeft -> Walk,
\* WalkRight -> Walk, Sad(n) -> Sad(n-1) for n > 0, Want(t) -> Sad(0) and
\* Task(t) -> Task(general) for a specific t, any other non-Idle key -> Idle; it
\* fails only when no key of the sequence is loaded, and a loaded key is returned
\* as it is, without a hop.
C10_FirstLoadedAlongChain ==
    LET chain == TableChain(get_arg)
        loaded == LoadedAlong(chain)
    IN  /\ get_result.st = "Ok" =>
            /\ loaded # {}
            /\ get_key = chain[SetMin(loaded)]
            /\ get_result.frames = anims[chain[SetMin(loaded)]]
            /\ get_hops = SetMin(loaded) - 1
        /\ get_result.st = "Err" => loaded = {}

\* C10 witness: Want of a specific type, not loaded, resolved to the loaded Sad(0)
\* frames although Idle is loaded too.
C10_Witness ==
    /\ get_result.st = "Ok" /\ get_arg.kind = "Want" /\ get_arg.ty # General
    /\ get_arg \notin DOMAIN anims /\ Idle \in DOMAIN anims
    /\ get_result.frames = FramesFor(Sad(0))
    /\ get_hops = 1

(* ------------------- the resolver applied to drawn inputs -------------- *)
TimesOfDay == 0 .. (DayLen - 1)
Schedules == {Times(s) : s \in SUBSET TimesOfDay} \cup {Interval(d) : d \in 0 .. MaxInterval}

InitSchedule ==
    /\ tz \in Zones
    /\ schedule \in Schedules
    /\ reference \in 0 .. MaxRef
    /\ due = Pending
    /\ NoGetCall
    /\ NoLoad
    /\ NoLilGuy
    /\ NoProgram

CallNextInstance ==
    /\ due = Pending
    /\ due' = NextInstance(schedule, reference)
    /\ UNCHANGED <<tz, schedule, reference>>
    /\ UNCHANGED <<animVars, loadVars, lilVars, managerVars, ifaceVars>>

NextSchedule == CallNextInstance

SpecSchedule == InitSchedule /\ [][NextSchedule]_vars

\* C3: for a non-empty Times schedule in a zone without clock shift, next_instance
\* returns the reference's calendar day at the least scheduled time-of-day strictly
\* greater than the reference's time-of-day, or, when there is none (also when the
\* reference's time-of-day equals the largest scheduled one), the following day at
\* the smallest scheduled time-of-day; the result is strictly later than the reference.
C3_TimesNextInstance ==
    (due # Pending /\ schedule.kind = "Times" /\ schedule.times # {} /\ tz = NoShift) =>
        LET tod == reference % DayLen
            day == reference \div DayLen
            later == {t \in schedule.times : t > tod}
        IN  /\ due.st = "Ok"
            /\ due.val = IF later # {} THEN day * DayLen + SetMin(later)
                         ELSE (day + 1) * DayLen + SetMin(schedule.times)
            /\ due.val > reference

\* C3 witness: the reference's time-of-day equals the largest scheduled time and the
\* resolver answered with the next day's smallest time.
C3_Witness ==
    /\ due.st = "Ok" /\ schedule.kind = "Times" /\ tz = NoShift
    /\ Cardinality(schedule.times) = 2
    /\ \A t \in schedule.times : t <= reference % DayLen
    /\ reference % DayLen \in schedule.times
    /\ due.val = ((reference \div DayLen) + 1) * DayLen + SetMin(schedule.times)

\* C4: for every Interval(d) with d > 0 and every reference, in every zone,
\* next_instance returns exactly reference + d (no day alignment; the resolver
\* reads no clock).
C4_IntervalExact ==
    (due # Pending /\ schedule.kind = "Interval" /\ schedule.interval > 0) =>
        due = Ok(reference + schedule.interval)

\* C4 witness: an interval resolved from a reference that is not at a day boundary,
\* across the zone's shift, to an instant that is not at a day boundary either.
C4_Witness ==
    /\ due.st = "Ok" /\ schedule.kind = "Interval" /\ schedule.interval > 0
    /\ tz.delta # 0 /\ reference < tz.at /\ due.val >= tz.at
    /\ reference % DayLen # 0 /\ due.val % DayLen # 0
    /\ due.val = reference + schedule.interval

\* C12: next_instance on a Times schedule with an empty time set returns a
\* ScheduleError for every reference instant and never a due instant; it returns no
\* error for a non-empty Times set or for an Interval schedule.
C12_EmptyTimesError ==
    due # Pending =>
        /\ (schedule = Times({}) => due = Err)
        /\ (due.st = "Err" => schedule = Times({}))

(* --------------- Animations::load applied to drawn texts --------------- *)
\* the lines of the drawn texts: block headers with a key in either case and with
\* a key outside the vocabulary, frame headers with and without the "ms" suffix,
\* with a negative and with an unreadable number, an art row and a row of digits
LoadLines ==
    { Line(AnimationHead, "idle"), Line(AnimationHead, "Walk"), Line(AnimationHead, "sad/2"),
      Line(FrameHead, "1ms"), Line(FrameHead, "2"), Line(FrameHead, "-1ms"),
      Line(FrameHead, "xms"), Line("", "(o.o)"), Line("", "2") }

InitLoad ==
    /\ tz = NoShift /\ schedule = Interval(0) /\ reference = 0 /\ due = Pending
    /\ NoGetCall
    /\ text \in SeqsUpTo(LoadLines, MaxTextLines)
    /\ load_result = [st |-> "Pending", anims |-> << >>]
    /\ NoLilGuy
    /\ NoProgram

CallLoad ==
    /\ load_result.st = "Pending"
    /\ load_result' = Load(text)
    /\ UNCHANGED text
    /\ UNCHANGED <<schedVars, animVars, lilVars, managerVars, ifaceVars>>

NextLoad == CallLoad

SpecLoad == InitLoad /\ [][NextLoad]_vars

\* a block header whose key is outside the vocabulary
UnknownKey(t) ==
    \E i \in 1 .. Len(t) : t[i].head = AnimationHead /\ FromStr(t[i].rest).st = "Err"
\* a frame header whose duration is no number, or a negative one
BadDuration(t) ==
    \E i \in 1 .. Len(t) :
        t[i].head = FrameHead /\ (ParseMs(t[i].rest).st = "Err" \/ ParseMs(t[i].rest).ms < 0)
\* the text does not start with a block header, or a block header is not followed
\* by a frame header
BadStructure(t) ==
    /\ t # << >>
    /\ \/ t[1].head # AnimationHead
       \/ \E i \in 1 .. Len(t) :
            t[i].head = AnimationHead /\ (i = Len(t) \/ t[i + 1].head # FrameHead)

\* C19: load returns a ParseError and no library whenever the text has a block with
\* a key outside the vocabulary, a frame header whose duration is not a valid number
\* of milliseconds, or a block that violates the grammar (a block header followed by
\* one or more frames, every art row inside a frame); and it never panics.
C19_LoadRejectsMalformed ==
    load_result.st # "Pending" =>
        /\ load_result.st # "Panic"
        /\ (UnknownKey(text) \/ BadDuration(text) \/ BadStructure(text)) =>
                load_result.st = "Err"

(* ------------- the companion updated with drawn arguments -------------- *)
\* Animation files (the character files are data of the build): Idle with Sad(0);
\* a file with two-frame walks, both Sad levels, a Want and the Task animations;
\* a file without Idle; an empty file.
FileIdleSad ==
    << Line(AnimationHead, "idle"), Line(FrameHead, "1ms"), Line("", "oo"),
       Line(AnimationHead, "sad/0"), Line(FrameHead, "1ms"), Line("", "uu") >>
FileFull ==
    << Line(AnimationHead, "idle"), Line(FrameHead, "1ms"), Line("", "oo"),
       Line(AnimationHead, "Walk"), Line(FrameHead, "2ms"), Line("", "o-"),
                                    Line(FrameHead, "1ms"), Line("", "-o"),
       Line(AnimationHead, "sad/0"), Line(FrameHead, "1ms"), Line("", "uu"),
       Line(AnimationHead, "sad/1"), Line(FrameHead, "1ms"), Line("", "UU"),
       Line(AnimationHead, "want/eat"), Line(FrameHead, "1ms"), Line("", "e?"),
       Line(AnimationHead, "task/general"), Line(FrameHead, "2ms"), Line("", "ok"),
       Line(AnimationHead, "task/eat"), Line(FrameHead, "1ms"), Line("", "nom") >>
FileNoIdle ==
    << Line(AnimationHead, "sad/0"), Line(FrameHead, "1ms"), Line("", "uu"),
       Line(AnimationHead, "Walk"), Line(FrameHead, "1ms"), Line("", "o-") >>
AnimationFiles == {FileIdleSad, FileFull, FileNoIdle, << >>}

\* the arguments update is called with
Happinesses == {0, (3 * Scale) \div 10, (6 * Scale) \div 10}
Ongoings == {{}, {"Eat"}, {"Other(stretch)"}}
Rooms == {[start |-> 0, end |-> e] : e \in {1, 4}}
WantLists ==
    { << >>, <<TaskDue("Other(stretch)", 0), TaskDue("Eat", 0)>>,
      <<TaskDue("Drink", 0), TaskDue("Other(stretch)", 0)>> }
IdleTimes == {[start |-> 1, end |-> 3], [start |-> 1, end |-> 1]}

\* rng.gen_range(range) and the rolls, for a range that is not empty
NoRnd == [dur |-> 0, roll |-> "none"]
RndDraws(idle_time) ==
    IF idle_time.start >= idle_time.end THEN {NoRnd}
    ELSE [dur : idle_time.start .. (idle_time.end - 1), roll : Rolls]

\* LilGuyState::new on a file that loads
InitLilGuy ==
    /\ tz = NoShift /\ schedule = Interval(0) /\ reference = 0 /\ due = Pending
    /\ \E f \in AnimationFiles :
        /\ Load(f).st = "Ok"
        /\ anims = Load(f).anims
        /\ text = f
        /\ load_result = Load(f)
    /\ get_arg = Idle /\ get_key = Idle /\ get_hops = 0 /\ get_seen = << >>
    /\ get_result = [st |-> "Idle", frames |-> NoFrames]
    /\ idle_animation_time \in IdleTimes
    /\ lil_guy = LilGuyNew(0)
    /\ lil_call = NoLilCall
    /\ NoProgram

\* one call of update; the caller stops calling once it failed
CallUpdate ==
    \E h \in Happinesses, ongoing \in Ongoings, room \in Rooms, wants \in WantLists,
       now \in lil_call.now .. MaxMono :
      \E rnd \in IF Select(lil_guy, anims, idle_animation_time, h, ongoing, room, wants,
                           now, NoRnd).rule = "reroll"
                  THEN RndDraws(idle_animation_time) ELSE {NoRnd} :
        LET r == LilGuyUpdate(lil_guy, anims, idle_animation_time, h, ongoing, room, wants, now, rnd)
        IN  /\ lil_call.st \in {"Pending", "Ok"}
            /\ lil_guy' = r.lg
            /\ lil_call' = [st |-> r.st, rule |-> r.rule, happiness |-> h,
                            ongoing_task |-> ongoing, room_bounds |-> room,
                            wants |-> wants, now |-> now]
            /\ UNCHANGED idle_animation_time
            /\ UNCHANGED <<schedVars, animVars, loadVars, managerVars, ifaceVars>>

NextLilGuy == CallUpdate

SpecLilGuy == InitLilGuy /\ [][NextLilGuy]_vars

\* the companion fits in the room: neither boundary test of update holds
InBounds(lg, room) ==
    /\ lg.pos[1] >= room.start
    /\ lg.pos[1] + MaxBounds(anims)[1] <= room.end

\* the places in the overdue list whose Want animation is a key of the library
DirectWants(wants) == {i \in 1 .. Len(wants) : Want(wants[i].ty) \in DOMAIN anims}

\* C11: when the unhappiness rule applies (happiness < 0.6, in bounds, no ongoing
\* task) the new key is Want(T) iff some overdue task has Want(T) loaded directly in
\* the library (fallbacks not counted), T being the type of the first such task in
\* list order; otherwise it is a Sad key. With a library of only Idle and Sad(0) and
\* happiness 0.3 the key after the tick is Sad(0), resolved to the Sad(0) frames.
C11_WantOnlyIfLoaded ==
    [][(/\ 10 * lil_call'.happiness < 6 * Scale
        /\ lil_call'.ongoing_task = {}
        /\ InBounds(lil_guy, lil_call'.room_bounds))
       => LET direct == DirectWants(lil_call'.wants)
              key == lil_guy'.current_animation
          IN  /\ direct # {} => key = Want(lil_call'.wants[SetMin(direct)].ty)
              /\ direct = {} => key = Sad(SadLevel(lil_call'.happiness, MaxSadness(anims)))
              /\ key.kind = "Want" <=> direct # {}
              /\ (DOMAIN anims = {Idle, Sad(0)} /\ 10 * lil_call'.happiness = 3 * Scale) =>
                    /\ key = Sad(0)
                    /\ lil_call'.st = "Ok"
                    /\ Get(anims, key) = [st |-> "Ok", frames |-> anims[Sad(0)]]]_vars

\* C11 witness: the first overdue task has no Want animation of its own (its Want
\* would resolve to Sad(0) through the fallbacks), the second has one and is chosen.
C11_Witness ==
    /\ lil_call.st = "Ok" /\ lil_call.rule = "unhappy"
    /\ Len(lil_call.wants) = 2
    /\ DirectWants(lil_call.wants) = {2}
    /\ Get(anims, Want(lil_call.wants[1].ty)).st = "Ok"
    /\ lil_guy.current_animation = Want(lil_call.wants[2].ty)

\* C17: a library without Idle that load accepted is detected by the first update
\* of the companion: no update on such a library returns Ok, so the companion never
\* keeps running on it.
C17_NoIdleDetected ==
    (load_result.st = "Ok" /\ Idle \notin DOMAIN anims) => lil_call.st # "Ok"

\* C20: the first applicable rule decides. An out-of-bounds companion gets WalkRight
\* or WalkLeft whatever the ongoing task and the happiness are; in bounds, an ongoing
\* task gives Task(type) whatever the happiness is; in bounds and without a task, a
\* happiness < 0.6 gives a Want or Sad key; and in all these cases the reroll
\* deadline is left as it was. Only then is the reroll looked at, and the reversion
\* of a Task key to Idle only when no reroll is due.
C20_FirstRuleWins ==
    [][lil_call'.st # "Panic"
       => LET c == lil_call'
              key == lil_guy'.current_animation
              left == lil_guy.pos[1] < c.room_bounds.start
              right == ~left /\ lil_guy.pos[1] + MaxBounds(anims)[1] > c.room_bounds.end
              task == ~left /\ ~right /\ c.ongoing_task # {}
              unhappy == ~left /\ ~right /\ c.ongoing_task = {} /\ 10 * c.happiness < 6 * Scale
              reroll == /\ ~left /\ ~right /\ c.ongoing_task = {} /\ 10 * c.happiness >= 6 * Scale
                        /\ lil_guy.idle_animation_change < c.now
          IN  /\ left => key = WalkRight
              /\ right => key = WalkLeft
              /\ task => key \in {TaskAnim(t) : t \in c.ongoing_task}
              /\ unhappy => key.kind \in {"Want", "Sad"}
              /\ (left \/ right \/ task \/ unhappy) =>
                    lil_guy'.idle_animation_change = lil_guy.idle_animation_change
              /\ reroll =>
                    /\ key \in {WalkLeft, WalkRight, Idle, lil_guy.current_animation}
                    /\ lil_guy'.idle_animation_change \in
                          {c.now + d : d \in idle_animation_time.start .. (idle_animation_time.end - 1)}
              /\ (~left /\ ~right /\ ~task /\ ~unhappy /\ ~reroll) =>
                    /\ lil_guy'.idle_animation_change = lil_guy.idle_animation_change
                    /\ key = IF lil_guy.current_animation.kind = "Task" THEN Idle
                             ELSE lil_guy.current_animation]_vars

\* C20 witness: a companion left of the room walks right although a task is ongoing
\* and the happiness is below 0.6, a reroll being due as well.
C20_Witness ==
    /\ lil_call.st = "Ok" /\ lil_call.rule = "boundary"
    /\ lil_call.ongoing_task # {} /\ 10 * lil_call.happiness < 6 * Scale
    /\ lil_guy.current_animation = WalkRight
    /\ lil_guy.idle_animation_change < lil_call.now

\* the two boundary tests of update on the position before the tick
LeftOf(lg, room) == lg.pos[1] < room.start
RightOf(lg, room) == lg.pos[1] + MaxBounds(anims)[1] > room.end

\* C21: a companion whose position is less than the room's left bound gets
\* WalkRight; otherwise one whose position plus the library's maximum frame width
\* is greater than the room's right bound gets WalkLeft; when neither holds the
\* boundary correction selects nothing. Never the reverse direction.
C21_BoundaryCorrection ==
    [][LET c == lil_call'
           key == lil_guy'.current_animation
       IN  /\ LeftOf(lil_guy, c.room_bounds) => (c.rule = "boundary" /\ key = WalkRight)
           /\ (~LeftOf(lil_guy, c.room_bounds) /\ RightOf(lil_guy, c.room_bounds)) =>
                 (c.rule = "boundary" /\ key = WalkLeft)
           /\ (~LeftOf(lil_guy, c.room_bounds) /\ ~RightOf(lil_guy, c.room_bounds)) =>
                 c.rule # "boundary"]_vars

\* C21 witness: a companion that walked out of the room on the left was turned to
\* WalkRight by the boundary correction and has not moved yet.
C21_Witness ==
    /\ lil_call.rule = "boundary" /\ lil_guy.current_animation = WalkRight
    /\ lil_guy.pos[1] < lil_call.room_bounds.start

\* floor((1 - happiness / 0.6) * (max_sadness + 1)) in the fixed-point stand-in
SadFormula(h, max_sadness) == ((6 * Scale - 10 * h) * (max_sadness + 1)) \div (6 * Scale)

\* C22: when the unhappiness rule of an update selects a plain sadness animation,
\* its level is floor((1 - happiness / 0.6) * (max_sadness + 1)) clamped to
\* [0, max_sadness], so never above the highest Sad level of the library.
C22_SadLevelClamped ==
    (/\ lil_call.st = "Ok" /\ lil_call.rule = "unhappy"
     /\ lil_guy.current_animation.kind = "Sad") =>
        /\ lil_guy.current_animation.level =
              Clamp(SadFormula(lil_call.happiness, MaxSadness(anims)), 0, MaxSadness(anims))
        /\ lil_guy.current_animation.level <= MaxSadness(anims)

\* the index after animation_frame in an animation of n frames
NextFrame(i, n) == IF i + 1 >= n THEN 0 ELSE i + 1

\* C24: in a tick whose transition logic selects a key different from the current
\* one, the key is replaced, the frame index is 0 and the next-frame deadline is the
\* tick's now; when the selected key is the current one, or none is selected, the
\* key is kept and the frame index and the deadline are those of before the tick
\* when the frame advance, which follows, starts from them.
C24_Step ==
    lil_call'.st = "Ok" =>
        LET c == lil_call'
        IN  \E rnd \in RndDraws(idle_animation_time) \cup {NoRnd} :
              LET sel == Select(lil_guy, anims, idle_animation_time, c.happiness,
                                c.ongoing_task, c.room_bounds, c.wants, c.now, rnd)
                  frames == Get(anims, lil_guy.current_animation).frames
              IN  /\ sel.rule = c.rule
                  /\ sel.idle_animation_change = lil_guy'.idle_animation_change
                  /\ IF sel.new # {} /\ sel.new # {lil_guy.current_animation}
                     THEN /\ lil_guy'.current_animation \in sel.new
                          /\ lil_guy'.animation_frame = 0
                          /\ lil_guy'.next_frame_time = c.now
                     ELSE /\ lil_guy'.current_animation = lil_guy.current_animation
                          /\ IF c.now > lil_guy.next_frame_time
                             THEN lil_guy'.animation_frame =
                                    NextFrame(lil_guy.animation_frame, Len(frames))
                             ELSE /\ lil_guy'.animation_frame = lil_guy.animation_frame
                                  /\ lil_guy'.next_frame_time = lil_guy.next_frame_time
C24_KeyChangeResetsFrame == [][C24_Step]_vars

\* C24 witness: a tick later than the construction has switched to a key whose
\* animation has two frames: frame 0, due at the tick's now, after the companion
\* had been at frame 1 of a walk in the other direction (it moved before).
C24_Witness ==
    /\ lil_call.st = "Ok" /\ lil_call.now > 0
    /\ lil_guy.current_animation = WalkRight
    /\ Len(Get(anims, WalkRight).frames) = 2
    /\ lil_guy.animation_frame = 0 /\ lil_guy.next_frame_time = lil_call.now
    /\ lil_guy.pos[1] < 0

\* C25: in every tick, after the transition logic (which, on a key change, has put
\* the frame index to 0 and the deadline to now): if now has passed the deadline the
\* frame index becomes index + 1, wrapped to 0 past the last frame of the animation
\* the current key resolves to, the deadline becomes now + the duration of the new
\* frame and the horizontal position changes by -1 for WalkLeft, +1 for WalkRight
\* and 0 for every other key; otherwise index, deadline and position are
\* unchanged. The vertical position never changes.
C25_Step ==
    lil_call'.st = "Ok" =>
        LET now == lil_call'.now
            key == lil_guy'.current_animation
            switched == key # lil_guy.current_animation
            index == IF switched THEN 0 ELSE lil_guy.animation_frame
            deadline == IF switched THEN now ELSE lil_guy.next_frame_time
            frames == Get(anims, key).frames
            dx == IF key = WalkLeft THEN -1 ELSE IF key = WalkRight THEN 1 ELSE 0
        IN  /\ lil_guy'.pos[2] = lil_guy.pos[2]
            /\ IF now > deadline
               THEN /\ lil_guy'.animation_frame = NextFrame(index, Len(frames))
                    /\ lil_guy'.next_frame_time =
                          now + frames[lil_guy'.animation_frame + 1].duration
                    /\ lil_guy'.pos[1] = lil_guy.pos[1] + dx
               ELSE /\ lil_guy'.animation_frame = index
                    /\ lil_guy'.next_frame_time = deadline
                    /\ lil_guy'.pos[1] = lil_guy.pos[1]
C25_FrameAdvance == [][C25_Step]_vars

\* C25 witness: a walk animation of two frames has wrapped from its last frame to
\* frame 0 in a tick past the deadline, the companion having moved to the right of
\* where it started.
C25_Witness ==
    /\ lil_call.st = "Ok"
    /\ lil_guy.current_animation = WalkRight
    /\ Len(Get(anims, WalkRight).frames) = 2
    /\ lil_guy.animation_frame = 0
    /\ lil_guy.next_frame_time > lil_call.now
    /\ lil_guy.pos[1] >= 2

\* every animation of the library has a frame
AllHaveFrames(an) == \A k \in DOMAIN an : an[k] # << >>

\* C28: after every successful update of the companion on a library in which every
\* animation has at least one frame, the frame index is smaller than the number of
\* frames of the animation the current key resolves to, so that render's lookup of
\* the frame is in range.
C28_FrameIndexInRange ==
    (lil_call.st = "Ok" /\ AllHaveFrames(anims)) =>
        /\ Get(anims, lil_guy.current_animation).st = "Ok"
        /\ lil_guy.animation_frame < Len(Get(anims, lil_guy.current_animation).frames)

\* C28 witness: the companion is at the last frame of a two-frame animation, and
\* any other animation of the library it could switch to has one frame only.
C28_Witness ==
    /\ lil_call.st = "Ok" /\ AllHaveFrames(anims)
    /\ lil_guy.animation_frame = 1
    /\ Len(Get(anims, lil_guy.current_animation).frames) = 2
    /\ Len(Get(anims, Idle).frames) = 1

\* the room is at least as wide as the sprite and starts at or left of 0
RoomFits(room) == room.start <= 0 /\ MaxBounds(anims)[1] <= room.end - room.start
\* the companion is at most one unit outside the room
WithinOne(lg, room) ==
    /\ room.start - 1 <= lg.pos[1]
    /\ lg.pos[1] + MaxBounds(anims)[1] <= room.end + 1

\* C29, the start: the companion as constructed is in every room that fits
C29_Start ==
    lil_call.st = "Pending" => \A room \in Rooms : RoomFits(room) => InBounds(lil_guy, room)
\* C29, a tick: a companion at most one unit outside the room of the tick, a room
\* that fits, is at most one unit outside it after the tick
C29_Step ==
    (RoomFits(lil_call'.room_bounds) /\ WithinOne(lil_guy, lil_call'.room_bounds)) =>
        WithinOne(lil_guy', lil_call'.room_bounds)

\* C29: with room bounds [L, R) held fixed, L <= 0 and a sprite width W <= R - L,
\* the companion, which starts at position 0, satisfies L - 1 <= pos and
\* pos + W <= R + 1 after any sequence of ticks, whatever the happiness, the
\* ongoing task and the rerolls are.
C29_AtMostOneUnitOutside == []C29_Start /\ [][C29_Step]_vars

\* C29 witness: the companion has walked one unit out of a room that fits, on the
\* left, in a tick with that room.
C29_Witness ==
    /\ lil_call.st = "Ok" /\ RoomFits(lil_call.room_bounds)
    /\ lil_guy.pos[1] = lil_call.room_bounds.start - 1
    /\ lil_guy.current_animation = WalkLeft

(* ------ the companion ticked for ever in one room (LilGuyState) -------- *)
\* Instants are only compared and subtracted, so the companion's two deadlines are
\* kept relative to the instant of the last tick; a deadline that instant has
\* reached is kept as 0 (every later tick is past it).
Max(a, b) == IF a >= b THEN a ELSE b
Rebase(lg, now) ==
    [lg EXCEPT !.next_frame_time = Max(@ - now, 0),
               !.idle_animation_change = Max(@ - now, 0)]

\* the arguments of the updates: an unhappy and a happy companion, with and
\* without an ongoing task, nothing wanted
LiveHappinesses == {(3 * Scale) \div 10, (6 * Scale) \div 10}
LiveOngoings == {{}, {"Eat"}}
LiveWantLists == {<< >>}

\* LilGuyState::new on a file that loads with Idle, in a room that fits the sprite
InitLive ==
    /\ tz = NoShift /\ schedule = Interval(0) /\ reference = 0 /\ due = Pending
    /\ \E f \in {FileFull, FileIdleSad} :
        /\ anims = Load(f).anims
        /\ text = f
        /\ load_result = Load(f)
    /\ get_arg = Idle /\ get_key = Idle /\ get_hops = 0 /\ get_seen = << >>
    /\ get_result = [st |-> "Idle", frames |-> NoFrames]
    /\ idle_animation_time = [start |-> 1, end |-> 2]
    /\ lil_guy = LilGuyNew(0)
    /\ \E room \in Rooms :
        /\ RoomFits(room)
        /\ lil_call = [tick |-> 0] @@ [NoLilCall EXCEPT !.room_bounds = room]
    /\ NoProgram

\* one update, `now` instants after the one before, in the room of the
\* construction; rolls are the outcomes the reroll may draw. The parity of the
\* number of updates is kept (tick), so that an update that leaves the companion
\* as it was is a step all the same.
TickLiveWith(rolls) ==
    \E h \in LiveHappinesses, ongoing \in LiveOngoings, wants \in LiveWantLists,
       now \in 1 .. MaxStep :
      \E rnd \in IF Select(lil_guy, anims, idle_animation_time, h, ongoing,
                           lil_call.room_bounds, wants, now, NoRnd).rule = "reroll"
                  THEN {d \in RndDraws(idle_animation_time) : d.roll \in rolls}
                  ELSE {NoRnd} :
        LET r == LilGuyUpdate(lil_guy, anims, idle_animation_time, h, ongoing,
                              lil_call.room_bounds, wants, now, rnd)
        IN  /\ lil_call.st \in {"Pending", "Ok"}
            /\ lil_guy' = Rebase(r.lg, now)
            /\ lil_call' = [st |-> r.st, rule |-> r.rule, happiness |-> h,
                            ongoing_task |-> ongoing, room_bounds |-> lil_call.room_bounds,
                            wants |-> wants, now |-> now, tick |-> 1 - lil_call.tick]
            /\ UNCHANGED idle_animation_time
            /\ UNCHANGED <<schedVars, animVars, loadVars, managerVars, ifaceVars>>

TickLive == TickLiveWith(Rolls)
\* a reroll that draws Idle
RerollIdle == TickLiveWith({"idle"}) /\ lil_call'.rule = "reroll"

NextLive == TickLive

\* the loop keeps ticking, and a reroll that is due again and again draws each of
\* its outcomes, Idle among them, again and again
SpecLilGuyLive ==
    InitLive /\ [][NextLive]_vars /\ WF_vars(TickLive) /\ SF_vars(RerollIdle)

\* C30: with fixed room bounds at least as wide as the sprite and the ticks going
\* on, a companion outside the bounds is eventually back inside them, and while it
\* is inside the boundary correction is not the rule that decides a tick.
C30_BackInside ==
    /\ (~InBounds(lil_guy, lil_call.room_bounds)) ~> InBounds(lil_guy, lil_call.room_bounds)
    /\ [][InBounds(lil_guy, lil_call.room_bounds) => lil_call'.rule # "boundary"]_vars

\* C30 witness: the companion is one unit left of the room, walking right after the
\* boundary correction overrode an ongoing task.
C30_Witness ==
    /\ lil_guy.pos[1] < lil_call.room_bounds.start
    /\ lil_call.rule = "boundary" /\ lil_call.ongoing_task # {}
    /\ lil_guy.current_animation = WalkRight

\* C23, the tick: no task is ongoing, the current key is a Task key, and neither
\* the boundary correction nor the unhappiness rule nor the idle reroll applies:
\* the key becomes Idle in that tick.
C23_Revert ==
    (/\ lil_call'.st = "Ok" /\ lil_call'.ongoing_task = {}
     /\ lil_guy.current_animation.kind = "Task"
     /\ InBounds(lil_guy, lil_call'.room_bounds)
     /\ 10 * lil_call'.happiness >= 6 * Scale
     /\ ~(lil_guy.idle_animation_change < lil_call'.now)) =>
        (lil_call'.rule = "revert" /\ lil_guy'.current_animation = Idle)
\* C23, no Task key is shown anew without an ongoing task
C23_NoNewTask ==
    (lil_guy'.current_animation.kind = "Task" /\ lil_call'.ongoing_task = {}) =>
        lil_guy'.current_animation = lil_guy.current_animation

InitLedger ==
    /\ tz \in Zones /\ schedule = Interval(0) /\ reference = 0 /\ due = Pending
    /\ NoGetCall
    /\ NoLoad
    /\ NoLilGuy
    /\ conf \in {c \in Confs : c.task_timeout_max = MaxTimeout}
    /\ clock = 0
    /\ ledger \in Ledgers(0)
    /\ task_threshold = ManagerThreshold(conf)
    /\ tasks = EmptyTasks
    /\ call = [op |-> "none", ty |-> "-", st |-> "Ok"]
    /\ keybinds = << >> /\ task_timeout = 0 /\ task_timeout_max = 0
    /\ happiness = 0 /\ mood = "" /\ pressed = {} /\ status = "running"
    /\ NoUi

\* task_manager.tasks(now), the caller's clock not running backwards; a panic in
\* the resolver ends the process
CallTasks ==
    \E now \in clock .. MaxNow :
        LET r == ManagerTasks(ledger, task_threshold, now)
        IN  /\ status = "running"
            /\ clock' = now
            /\ call' = [op |-> "tasks", ty |-> "-", st |-> r.st]
            /\ tasks' = r.val
            /\ status' = IF r.st = "Panic" THEN "panic" ELSE status
            /\ UNCHANGED <<conf, ledger, task_threshold>>
            /\ UNCHANGED <<keybinds, task_timeout, task_timeout_max, happiness, mood, pressed>>
            /\ UNCHANGED <<schedVars, loadVars, lilVars, animVars, uiVars>>

\* task_manager.complete_tasks(&ty, now): it returns nothing
CallCompleteTasks ==
    \E now \in clock .. MaxNow, ty \in TaskTypes :
        /\ status = "running"
        /\ clock' = now
        /\ call' = [op |-> "complete_tasks", ty |-> ty, st |-> "Ok"]
        /\ ledger' = CompleteTasks(ledger, ty, now)
        /\ tasks' = EmptyTasks
        /\ UNCHANGED <<conf, task_threshold>>
        /\ UNCHANGED <<schedVars, loadVars, lilVars, animVars, ifaceVars>>

NextLedger == CallTasks \/ CallCompleteTasks

SpecLedger == InitLedger /\ [][NextLedger]_vars

\* the due instants of the ledger, in ledger order
Dues(led) == [i \in 1 .. Len(led) |-> TaskDue(led[i].ty, NextInstance(led[i].schedule, led[i].last_done).val)]

\* C1: tasks(now) puts each task, with due = next_instance(schedule, last_done), in
\* upcoming iff due > now, in current iff due <= now and now - due < task_timeout
\* (the configured one), in past iff now - due >= task_timeout; each list keeps the
\* ledger's order.
C1_Classification ==
    (call.op = "tasks" /\ call.st = "Ok") =>
        LET dues == Dues(ledger)
        IN  /\ tasks.upcoming = SelectSeq(dues, LAMBDA d : d.when > clock)
            /\ tasks.current = SelectSeq(dues, LAMBDA d :
                                   d.when <= clock /\ clock - d.when < conf.task_timeout)
            /\ tasks.past = SelectSeq(dues, LAMBDA d : clock - d.when >= conf.task_timeout)

\* C1 witness: a classification with a task exactly at the end of its window (past)
\* behind a task that is still upcoming, the window not being empty.
C1_Witness ==
    /\ call.op = "tasks" /\ call.st = "Ok" /\ Len(ledger) = 2
    /\ conf.task_timeout > 0
    /\ Len(tasks.upcoming) = 1 /\ tasks.upcoming[1].ty = ledger[1].ty
    /\ Len(tasks.past) = 1 /\ clock - tasks.past[1].when = conf.task_timeout

Count(x, q) == Cardinality({i \in 1 .. Len(q) : q[i] = x})

\* C2: a successful classification is a partition of the ledger: every task is in
\* exactly one of past, current, upcoming (as often as the ledger holds it), and
\* the three lengths sum to the number of tasks.
C2_Partition ==
    (call.op = "tasks" /\ call.st = "Ok") =>
        LET dues == Dues(ledger)
        IN  /\ Len(tasks.past) + Len(tasks.current) + Len(tasks.upcoming) = Len(ledger)
            /\ \A i \in 1 .. Len(dues) :
                /\ Count(dues[i], tasks.past) + Count(dues[i], tasks.current)
                       + Count(dues[i], tasks.upcoming) = Count(dues[i], dues)
                /\ Cardinality({l \in {"past", "current", "upcoming"} :
                                   InSeq(dues[i], tasks[l])}) = 1

\* C2 witness: two tasks classified into two different lists, one of them at the
\* boundary due = now.
C2_Witness ==
    /\ call.op = "tasks" /\ call.st = "Ok" /\ Len(ledger) = 2
    /\ Len(tasks.current) = 1 /\ tasks.current[1].when = clock
    /\ Len(tasks.past) = 1

\* C5: complete_tasks(type, now) sets last_done = now on every task of that type,
\* leaves every other task and every type and schedule as they were, and changes
\* nothing when no task has the type.
C5_CompleteFrame ==
    [][call'.op = "complete_tasks" =>
        /\ Len(ledger') = Len(ledger)
        /\ \A i \in 1 .. Len(ledger) :
            /\ ledger'[i].ty = ledger[i].ty
            /\ ledger'[i].schedule = ledger[i].schedule
            /\ ledger'[i].last_done = IF ledger[i].ty = call'.ty THEN clock'
                                      ELSE ledger[i].last_done
        /\ ((\A i \in 1 .. Len(ledger) : ledger[i].ty # call'.ty) => ledger' = ledger)
        /\ UNCHANGED <<conf, task_threshold>>]_vars

\* C5 witness: two tasks of the completed type, both with last_done = now.
C5_Witness ==
    /\ call.op = "complete_tasks" /\ Len(ledger) = 2
    /\ ledger[1].ty = call.ty /\ ledger[2].ty = call.ty
    /\ ledger[1].schedule # ledger[2].schedule
    /\ clock > 0 /\ ledger[1].last_done = clock /\ ledger[2].last_done = clock

(* ------------------- the program: not_main's update loop --------------- *)
\* an animation file that load rejects (a key outside the vocabulary)
FileBroken == << Line(AnimationHead, "sad/2"), Line(FrameHead, "1ms"), Line("", "??") >>
\* the character's animation file, the configured idle range and task animation
\* duration, and the widths terminal::size() reports
ProgramFiles == {FileFull, FileNoIdle, FileBroken}
ProgramIdleTimes == {[start |-> 2, end |-> 3]}
TaskAnimationDurations == {1}
ScreenCols == {7}

\* update, line 233: the horizontal range of the room
RoomBounds(cols) == [start |-> 0, end |-> cols - 4]

\* The state after Config::load_config and TaskManager::new, at `clock` (every
\* last_done is that instant), before InterfaceState::new.
Init ==
    /\ tz \in Zones /\ schedule = Interval(0) /\ reference = 0 /\ due = Pending
    /\ anims = << >>
    /\ get_arg = Idle /\ get_key = Idle /\ get_hops = 0 /\ get_seen = << >>
    /\ get_result = [st |-> "Idle", frames |-> NoFrames]
    /\ text \in ProgramFiles
    /\ load_result = [st |-> "Pending", anims |-> << >>]
    /\ lil_guy = LilGuyNew(0)
    /\ idle_animation_time \in ProgramIdleTimes
    /\ lil_call = NoLilCall
    /\ conf \in Confs
    /\ clock \in 0 .. MaxStart
    /\ ledger \in Ledgers(clock)
    /\ task_threshold = ManagerThreshold(conf)
    /\ tasks = EmptyTasks
    /\ call = [op |-> "none", ty |-> "-", st |-> "Ok"]
    /\ keybinds = << >>
    /\ task_timeout = 0
    /\ task_timeout_max = 0
    /\ happiness = 0 /\ mood = "" /\ pressed = {} /\ status = "start"
    /\ failure = "none" /\ terminal = Released /\ notifications = << >>
    /\ task_animations = << >> /\ current_task_animation = {}
    /\ task_animation_duration \in TaskAnimationDurations
    /\ rendered = "none"

\* the fallible steps of InterfaceState::new, in order
NewSteps ==
    << "EnterAlternateScreen", "Hide", "Clear", "enable_raw_mode", "write_icon",
       "write_meow1", "write_meow2", "LilGuyState::new", "Player::new" >>
StepOf(name) == CHOOSE i \in 1 .. Len(NewSteps) : NewSteps[i] = name
\* the steps that fail for reasons outside the program (terminal, files, audio)
IoSteps == {NewSteps[i] : i \in (1 .. Len(NewSteps)) \ {StepOf("LilGuyState::new")}}

\* the terminal when InterfaceState::new returned its error at step `at`: the steps
\* before it took effect and no InterfaceState exists whose drop would undo them
TerminalAfterFailedNew(at) ==
    [alternate_screen |-> at > StepOf("EnterAlternateScreen"),
     cursor_hidden |-> at > StepOf("Hide"),
     raw_mode |-> at > StepOf("enable_raw_mode")]

\* InterfaceState::new: io is the place of the step that fails for outside reasons
\* (past the end when none does); LilGuyState::new fails when the file does not load
New ==
    \E io \in {StepOf(n) : n \in IoSteps} \cup {Len(NewSteps) + 1} :
        LET loaded == Load(text)
            at == IF loaded.st # "Ok" /\ StepOf("LilGuyState::new") < io
                  THEN StepOf("LilGuyState::new") ELSE io
        IN  /\ status = "start"
            /\ load_result' = IF at >= StepOf("LilGuyState::new") THEN loaded ELSE load_result
            /\ IF at > Len(NewSteps)
               THEN /\ status' = "running"
                    /\ failure' = "none"
                    /\ terminal' = Acquired
                    /\ anims' = loaded.anims
                    /\ lil_guy' = LilGuyNew(clock)
                    /\ lil_call' = [NoLilCall EXCEPT !.now = clock]
                    /\ task_timeout' = IfaceTaskTimeout(conf)
                    /\ task_timeout_max' = IfaceTaskTimeoutMax(conf)
               ELSE /\ status' = IF NewSteps[at] = "LilGuyState::new" /\ loaded.st = "Panic"
                                 THEN "panic" ELSE "error"
                    /\ failure' = NewSteps[at]
                    /\ terminal' = TerminalAfterFailedNew(at)
                    /\ UNCHANGED <<anims, lil_guy, lil_call, task_timeout, task_timeout_max>>
            /\ UNCHANGED <<text, idle_animation_time, get_arg, get_key, get_hops, get_seen, get_result>>
            /\ UNCHANGED <<schedVars, managerVars>>
            /\ UNCHANGED <<keybinds, happiness, mood, pressed, notifications, task_animations,
                           current_task_animation, task_animation_duration, rendered>>

\* Drop for InterfaceState: the terminal once not_main has left the loop
Drop(st) == IF st = "running" THEN terminal ELSE Released

\* what a tick leaves alone whatever its path
TickFrame ==
    /\ UNCHANGED <<conf, task_threshold, call, task_timeout, task_timeout_max>>
    /\ UNCHANGED <<idle_animation_time, task_animation_duration>>
    /\ UNCHANGED <<schedVars, animVars, loadVars>>

\* update, event::poll or event::read failing: the error leaves the loop
UpdatePollError ==
        /\ status = "running"
        /\ keybinds' = Keybinds(tasks)
        /\ pressed' = {}
        /\ status' = "error"
        /\ failure' = "poll"
        /\ rendered' = "none"
        /\ terminal' = Drop("error")
        /\ UNCHANGED <<ledger, clock, tasks, happiness, mood>>
        /\ UNCHANGED <<notifications, task_animations, current_task_animation, lil_guy, lil_call>>
        /\ TickFrame

\* update, 'q' or ctrl-c read: Ok(false), the loop ends
UpdateQuit ==
        /\ status = "running"
        /\ keybinds' = Keybinds(tasks)
        /\ pressed' = {}
        /\ status' = "quit"
        /\ failure' = "none"
        /\ rendered' = "none"
        /\ terminal' = Drop("quit")
        /\ UNCHANGED <<ledger, clock, tasks, happiness, mood>>
        /\ UNCHANGED <<notifications, task_animations, current_task_animation, lil_guy, lil_call>>
        /\ TickFrame

\* self.notifications.retain_mut(..): the handles of the completed type are closed
\* and dropped
NotificationsAfter(notifs, ty) == SelectSeq(notifs, LAMBDA n : n \notin ty)

\* a completed type put at the front of the queue (push_front)
TaskAnimationsAfterFront(queue, ty) ==
    IF ty = {} THEN queue ELSE <<CHOOSE t \in ty : TRUE>> \o queue

\* self.task_animations.push_back(task_type)
TaskAnimationsAfter(queue, ty) ==
    IF ty = {} THEN queue ELSE Append(queue, CHOOSE t \in ty : TRUE)

\* the types of the tasks handed to the two notify_tasks calls, in order
NotifyTypes(new, old) ==
    [i \in 1 .. Len(NotifyTasks(new, old)) |-> NotifyTasks(new, old)[i].ty]

\* a task animation that is cleared at its end instant already
TaskAnimationStepAtEnd(current, queue, now_std, duration) ==
    LET kept == {c \in current : ~(c.end_time <= now_std)}
    IN  IF kept = {} /\ queue # << >>
        THEN [current |-> {[ty |-> Head(queue), end_time |-> now_std + duration]},
              queue |-> Tail(queue)]
        ELSE [current |-> kept, queue |-> queue]

\* update, lines 193-203: an animation past its end is cleared, then the next queued
\* type starts when none is current
TaskAnimationStep(current, queue, now_std, duration) ==
    LET kept == {c \in current : ~(c.end_time < now_std)}
    IN  IF kept = {} /\ queue # << >>
        THEN [current |-> {[ty |-> Head(queue), end_time |-> now_std + duration]},
              queue |-> Tail(queue)]
        ELSE [current |-> kept, queue |-> queue]

\* update from line 175 on, once the event was handled: the ways it returns. r is
\* what task_manager.tasks(now) returned, h the happiness of its past list, notifs
\* and queue the notifications and task animations after the key press, ta the
\* task animation step.

\* tasks(now)? fails: the ScheduleError is returned; a panic of the resolver unwinds
ReturnTasksFail(r, notifs, queue) ==
    /\ r.st # "Ok"
    /\ status' = IF r.st = "Err" THEN "error" ELSE "panic"
    /\ failure' = "schedule"
    /\ notifications' = notifs
    /\ task_animations' = queue
    /\ rendered' = "none"
    /\ terminal' = Drop("error")
    /\ UNCHANGED <<tasks, happiness, mood, current_task_animation, lil_guy, lil_call>>

\* notify_tasks(..)? fails, at a notification's show() or at the sound, after shown
\* notifications were pushed: the error is returned before the new classification
\* is stored
ReturnNotifyError(r, notifs, queue) ==
    /\ r.st = "Ok"
    /\ NotifyTasks(r.val, tasks) # << >>
    /\ \E shown \in 0 .. Len(NotifyTasks(r.val, tasks)) :
        notifications' = notifs \o SubSeq(NotifyTypes(r.val, tasks), 1, shown)
    /\ status' = "error"
    /\ failure' = "notify"
    /\ task_animations' = queue
    /\ rendered' = "none"
    /\ terminal' = Drop("error")
    /\ UNCHANGED <<tasks, happiness, mood, current_task_animation, lil_guy, lil_call>>

\* what every path past the notifications assigns
AfterNotify(r, h, notifs, ta) ==
    /\ r.st = "Ok"
    /\ notifications' = notifs \o NotifyTypes(r.val, tasks)
    /\ tasks' = r.val
    /\ current_task_animation' = ta.current
    /\ task_animations' = ta.queue
    /\ happiness' = h
    /\ mood' = Mood(h)

\* terminal::size()? fails after the classification was stored and the happiness
\* and the mood were computed
ReturnSizeError(r, h, notifs, ta) ==
    /\ AfterNotify(r, h, notifs, ta)
    /\ status' = "error"
    /\ failure' = "size"
    /\ rendered' = "none"
    /\ terminal' = Drop("error")
    /\ UNCHANGED <<lil_guy, lil_call>>

\* self.lil_guy.update(..)? and, when it returned Ok, Ok(true) and the loop's render,
\* whose error is logged
ReturnLilGuy(r, h, notifs, ta, cols, now) ==
    LET ongoing == {c.ty : c \in ta.current}
        room == RoomBounds(cols)
    IN  \E rnd \in IF Select(lil_guy, anims, idle_animation_time, h, ongoing, room,
                              r.val.past, now, NoRnd).rule = "reroll"
                    THEN RndDraws(idle_animation_time) ELSE {NoRnd} :
            LET u == LilGuyUpdate(lil_guy, anims, idle_animation_time, h, ongoing, room,
                                  r.val.past, now, rnd)
            IN  /\ AfterNotify(r, h, notifs, ta)
                /\ lil_guy' = u.lg
                /\ lil_call' = [st |-> u.st, rule |-> u.rule, happiness |-> h,
                                ongoing_task |-> ongoing, room_bounds |-> room,
                                wants |-> r.val.past, now |-> now]
                /\ \/ /\ u.st # "Ok"
                      /\ status' = IF u.st = "Err" THEN "error" ELSE "panic"
                      /\ failure' = "animation"
                      /\ rendered' = "none"
                      /\ terminal' = Drop("error")
                   \/ /\ u.st = "Ok"
                      /\ status' = "running"
                      /\ failure' = "none"
                      /\ rendered' \in {"ok", "error"}
                      /\ terminal' = Drop("running")

\* update with an event other than quit (or none): the key table, the clock
\* readings, the key press and its completion, then the classification and what
\* follows it. The wall clock and the monotonic clock are read together and
\* advance together; a tick reads them later than the construction and than the
\* tick before it.
Update ==
    \E now \in clock + 1 .. MaxNow, e \in Events \ {"quit"}, cols \in ScreenCols :
        LET kb == Keybinds(tasks)
            ty == Pressed(kb, e)
            led == LedgerAfter(ledger, kb, e, now)
            notifs == NotificationsAfter(notifications, ty)
            queue == TaskAnimationsAfter(task_animations, ty)
            r == ManagerTasks(led, task_threshold, now)
            ta == TaskAnimationStep(current_task_animation, queue, now, task_animation_duration)
            h == Happiness(r.val.past, now, task_timeout, task_timeout_max)
        IN  /\ status = "running"
            /\ Len(queue) <= MaxQueue
            /\ keybinds' = KeybindsAfter(kb, e)
            /\ clock' = now
            /\ pressed' = ty
            /\ ledger' = led
            /\ TickFrame
            /\ \/ ReturnTasksFail(r, notifs, queue)
               \/ ReturnNotifyError(r, notifs, queue)
               \/ ReturnSizeError(r, h, notifs, ta)
               \/ ReturnLilGuy(r, h, notifs, ta, cols, now)

Next ==
    \/ New
    \/ UpdatePollError
    \/ UpdateQuit
    \/ Update

Spec == Init /\ [][Next]_vars

\* a tick has stored a classification (and with it a happiness and a mood)
Ticked == mood # ""

OnlyUpcoming(d) ==
    /\ InSeq(d, tasks.upcoming) /\ ~InSeq(d, tasks.current) /\ ~InSeq(d, tasks.past)
DueAgain(d) ==
    /\ ~InSeq(d, tasks.upcoming) /\ (InSeq(d, tasks.current) \/ InSeq(d, tasks.past))

\* C6, the tick of the key press: the tasks of the completed type are listed by that
\* tick's classification with due = next_instance(schedule, now), under upcoming
\* only while now < due.
C6_SameTick ==
    (pressed' # {} /\ status' = "running") =>
        \A i \in 1 .. Len(ledger) :
            ledger[i].ty \in pressed' =>
                LET d == NextInstance(ledger[i].schedule, clock')
                    td == TaskDue(ledger[i].ty, d.val)
                IN  /\ d.st = "Ok"
                    /\ clock' < d.val =>
                        /\ InSeq(td, tasks'.upcoming)
                        /\ ~InSeq(td, tasks'.current) /\ ~InSeq(td, tasks'.past)
                    /\ clock' >= d.val =>
                        /\ ~InSeq(td, tasks'.upcoming)
                        /\ (InSeq(td, tasks'.current) \/ InSeq(td, tasks'.past))

\* C6, every classification at t >= last_done: upcoming only until t reaches the
\* due instant next_instance(schedule, last_done), current or past from then on.
C6_UntilDue ==
    (Ticked /\ status = "running") =>
        \A i \in 1 .. Len(ledger) :
            ledger[i].last_done <= clock =>
                /\ clock < Dues(ledger)[i].when => OnlyUpcoming(Dues(ledger)[i])
                /\ clock >= Dues(ledger)[i].when => DueAgain(Dues(ledger)[i])

\* C6: after a task is completed at now, every classification at t >= now, that of
\* the tick of the key press included, lists it under upcoming and not under past
\* or current until t reaches next_instance(schedule, now); from then on it is
\* current or past.
C6_CompletedIsUpcoming == [][C6_SameTick]_vars /\ []C6_UntilDue

\* C6 witness: a task completed by a key press is still upcoming at a later tick
\* without key press.
C6_Witness ==
    /\ Ticked /\ status = "running" /\ pressed = {}
    /\ \E i \in 1 .. Len(ledger) :
        /\ ledger[i].last_done > MaxStart
        /\ ledger[i].last_done < clock
        /\ clock < Dues(ledger)[i].when
        /\ InSeq(Dues(ledger)[i], tasks.upcoming)

\* C7: the happiness of every tick is in [0, 1], whatever the past list, now and
\* the configured timeouts are, and it is 1.0 when the past list is empty.
C7_HappinessRange ==
    Ticked =>
        /\ happiness >= 0
        /\ happiness <= Scale
        /\ (tasks.past = << >> => happiness = Scale)

\* C7 witness: two past tasks whose penalties sum to more than 1.0, the happiness
\* being 0.
C7_Witness ==
    /\ Ticked /\ Len(tasks.past) = 2
    /\ PenaltySum(tasks.past, clock, task_timeout, task_timeout_max) > Scale
    /\ happiness = 0

\* C8: the happiness is 1 minus the clamped sum, over the past tasks, of
\* sqrt(max(0, seconds(now - when) - task_timeout) / task_timeout_max) with the
\* configured task_timeout (the threshold of the classification) and
\* task_timeout_max; so a past task overdue by more than task_timeout lowers it
\* below 1.
C8_PenaltyFromTaskTimeout ==
    Ticked =>
        /\ happiness = Scale - Clamp(PenaltySum(tasks.past, clock, conf.task_timeout,
                                                conf.task_timeout_max), 0, Scale)
        /\ \A i \in 1 .. Len(tasks.past) :
            clock - tasks.past[i].when > conf.task_timeout => happiness < Scale

\* the tasks of the ledger whose schedule resolution does not return a due instant
Failing(led) ==
    {i \in 1 .. Len(led) : NextInstance(led[i].schedule, led[i].last_done).st # "Ok"}
FirstFailing(led) == CHOOSE i \in Failing(led) : \A j \in Failing(led) : i <= j
\* a step of update that got as far as the classification (it read the clock)
ClassifyingTick == clock' # clock

\* C13: on a tick whose classification meets a task whose schedule resolution
\* fails, wherever the task sits in the ledger, update ends with that failure (the
\* ScheduleError when the resolution returned one) and the stored classification,
\* the happiness, the mood, the companion and the current task animation are as
\* before the tick, no notification was dispatched, and the ledger differs from
\* the one before the tick only by the tick's key press.
C13_Step ==
    (ClassifyingTick /\ Failing(ledger') # {}) =>
        LET f == ledger'[FirstFailing(ledger')]
        IN  /\ failure' = "schedule"
            /\ NextInstance(f.schedule, f.last_done).st = "Err" => status' = "error"
            /\ status' \in {"error", "panic"}
            /\ tasks' = tasks /\ happiness' = happiness /\ mood' = mood
            /\ lil_guy' = lil_guy /\ lil_call' = lil_call
            /\ current_task_animation' = current_task_animation
            /\ notifications' = NotificationsAfter(notifications, pressed')
            /\ Len(ledger') = Len(ledger)
            /\ \A i \in 1 .. Len(ledger) :
                ledger'[i] = IF ledger[i].ty \in pressed' THEN Complete(ledger[i], clock')
                             ELSE ledger[i]
C13_ScheduleErrorFirst == [][C13_Step]_vars

\* C13 witness: update returned the ScheduleError of the second task of the ledger,
\* the first one resolving and being due.
C13_Witness ==
    /\ status = "error" /\ failure = "schedule" /\ Len(ledger) = 2
    /\ FirstFailing(ledger) = 2
    /\ NextInstance(ledger[1].schedule, ledger[1].last_done).val <= clock
    /\ tasks = EmptyTasks /\ notifications = << >>

\* not_main has returned or unwound
Exited == status \in {"quit", "error", "panic"}
\* the exit is not a failure of one of the acquiring steps themselves
AfterAcquisition ==
    failure \notin {"EnterAlternateScreen", "Hide", "Clear", "enable_raw_mode"}

\* C14: on every exit path that follows the acquisition of the terminal (normal
\* quit, an error of a tick's update, a failure of a later step of
\* InterfaceState::new) the teardown has run when the process ends: alternate
\* screen left, cursor shown, raw mode disabled.
C14_TeardownOnExit == (Exited /\ AfterAcquisition) => terminal = Released

\* the stored classification, happiness and mood are those of the last clock
\* reading, and the companion was updated at that reading
TickOutcomeStored ==
    /\ tasks = ManagerTasks(ledger, task_threshold, clock).val
    /\ happiness = Happiness(tasks.past, clock, task_timeout, task_timeout_max)
    /\ mood = Mood(happiness)
    /\ lil_call.now = clock /\ lil_call.happiness = happiness

\* C15: a failure of the notification dispatch or of the sound playback during a
\* tick does not affect the tick's outcome: the stored classification, the
\* happiness and the companion are updated as in a tick whose dispatch succeeded,
\* and the loop continues.
C15_NotifyFailureHarmless ==
    failure = "notify" => (status = "running" /\ TickOutcomeStored)

\* C16: a presentation error in a tick, a failed terminal size query or a failed
\* draw, only skips the tick's render step: the classification and the companion
\* still advance in that tick and the loop goes on.
C16_PresentationErrorSkipsRender ==
    (failure = "size" \/ rendered = "error") => (status = "running" /\ TickOutcomeStored)

\* the task types the stored classification lists as current or past
Displayed(ts) == {(ts.current \o ts.past)[i].ty : i \in 1 .. Len(ts.current \o ts.past)}
Digits == {"1", "2", "3", "4", "5", "6", "7", "8", "9"}

\* C18: in every tick the key table binds exactly one key to each task type the
\* previous tick's classification listed as current or past (the key press of the
\* tick removes the pressed key), the type's explicit keybind if it has one and a
\* digit otherwise, and no key to any other type; a key press completes only the
\* type bound to the pressed key, a displayed one, and at most one type.
C18_Step ==
    status = "running" =>
        LET D == Displayed(tasks)
            KeysOf(ty) == {k \in DOMAIN keybinds' : keybinds'[k] = ty}
        IN  /\ \A ty \in D \ pressed' :
                /\ Cardinality(KeysOf(ty)) = 1
                /\ KeysOf(ty) \subseteq (IF Keybind(ty) = {} THEN Digits ELSE Keybind(ty))
            /\ \A ty \in pressed' : KeysOf(ty) = {}
            /\ \A k \in DOMAIN keybinds' : keybinds'[k] \in D
            /\ pressed' \subseteq D /\ Cardinality(pressed') <= 1
            /\ \A i \in 1 .. Len(ledger) :
                ledger'[i] # ledger[i] => ledger[i].ty \in pressed'
C18_OneKeyPerType == [][C18_Step]_vars

\* the notifications a tick dispatched: those pushed behind the ones the tick's key
\* press left
Dispatched ==
    SubSeq(notifications', Len(NotificationsAfter(notifications, pressed')) + 1,
           Len(notifications'))
\* the entries of list `new` that list `old` does not hold, with type ty
NewOfType(new, old, ty) == {i \in 1 .. Len(new) : new[i].ty = ty /\ ~InSeq(new[i], old)}
\* a tick that got past the notifications
NotifiedTick == ClassifyingTick /\ failure' \notin {"schedule", "notify"}

\* C26 as stated: a notification is dispatched for a task exactly in the ticks in
\* which it newly enters the overdue state, the past list: one per task that is in
\* the past list and was not in it (with that due instant) at the tick before.
C26_ExactlyWhenOverdue ==
    [][NotifiedTick =>
        \A ty \in TaskTypes :
            Count(ty, Dispatched) = Cardinality(NewOfType(tasks'.past, tasks.past, ty))]_vars

\* C26 amended: a notification is dispatched for a task exactly in the ticks in
\* which it newly enters the current list and in those in which it newly enters
\* the past list; a task that stays in the same list with the same due instant
\* produces none, nor does an upcoming task.
C26_WhenNewInList ==
    [][NotifiedTick =>
        /\ notifications' =
              NotificationsAfter(notifications, pressed') \o Dispatched
        /\ \A ty \in TaskTypes :
              Count(ty, Dispatched) =
                  Cardinality(NewOfType(tasks'.current, tasks.current, ty))
                  + Cardinality(NewOfType(tasks'.past, tasks.past, ty))]_vars

\* C26 witness: the one task of the ledger was notified twice, when it became
\* current and when it became past, and stayed past for a tick without a further
\* notification.
C26_Witness ==
    /\ status = "running" /\ Len(ledger) = 1 /\ ledger[1].last_done = 0
    /\ Len(tasks.past) = 1 /\ clock - tasks.past[1].when > task_threshold + 1
    /\ task_threshold > 0
    /\ notifications = <<ledger[1].ty, ledger[1].ty>>

\* a tick that went on to update the companion
CompanionTick == NotifiedTick /\ failure' # "size"

\* C27: a type that became the ongoing-task signal at a tick of time t stays the
\* signal in every later tick of time <= t + task_animation_duration, and in the
\* first tick later than that it is cleared, or replaced by the next queued type
\* (the queue after the tick's key press), which then holds from that tick's time.
C27_Step ==
    NotifiedTick =>
        LET queue == TaskAnimationsAfter(task_animations, pressed')
            next == IF queue = << >> THEN {}
                    ELSE {[ty |-> Head(queue), end_time |-> clock' + task_animation_duration]}
        IN  /\ \A c \in current_task_animation :
                IF clock' <= c.end_time
                THEN current_task_animation' = {c} /\ task_animations' = queue
                ELSE current_task_animation' = next
            /\ current_task_animation = {} => current_task_animation' = next
            /\ CompanionTick =>
                lil_call'.ongoing_task = {c.ty : c \in current_task_animation'}
C27_OngoingForDuration == [][C27_Step]_vars

\* C27 witness: at a tick exactly task_animation_duration after the one in which it
\* started, the task animation is still the ongoing-task signal, another completed
\* type waiting in the queue.
C27_Witness ==
    /\ status = "running" /\ task_animations # << >>
    /\ \E c \in current_task_animation :
        /\ c.end_time = clock /\ task_animation_duration > 0
        /\ lil_call.ongoing_task = {c.ty} /\ lil_call.now = clock

\* the entries of a classification, and the class of an entry: 1 upcoming, 2
\* current, 3 past (0 when it is in no list)
Entries(ts) == ts.upcoming \o ts.current \o ts.past
ClassOf(ts, d) ==
    IF InSeq(d, ts.past) THEN 3
    ELSE IF InSeq(d, ts.current) THEN 2
    ELSE IF InSeq(d, ts.upcoming) THEN 1
    ELSE 0

\* C31: over successive classifications (now advancing) a task whose type was not
\* completed in between keeps its due instant and its class only moves forward,
\* upcoming then current then past: the next classification holds the entry as
\* often, with the same `when`, in the same or a later class; in particular an
\* entry of past stays in past.
C31_Step ==
    NotifiedTick =>
        \A i \in 1 .. Len(Entries(tasks)) :
            LET d == Entries(tasks)[i]
            IN  d.ty \notin pressed' =>
                    /\ Count(d, Entries(tasks')) = Count(d, Entries(tasks))
                    /\ ClassOf(tasks', d) >= ClassOf(tasks, d)
                    /\ ClassOf(tasks, d) >= 1
                    /\ (InSeq(d, tasks.past) => InSeq(d, tasks'.past))
C31_ClassOnlyForward == [][C31_Step]_vars

\* C31 witness: a task that was notified as current and, in a later tick, as past
\* (no completion of its type in between, or its notifications were gone), in a
\* tick whose key press completed a task of another type.
C31_Witness ==
    /\ status = "running" /\ Len(ledger) = 2 /\ ledger[1].ty # ledger[2].ty
    /\ pressed = {ledger[2].ty}
    /\ Len(tasks.past) = 1 /\ tasks.past[1].ty = ledger[1].ty
    /\ tasks.past[1].when > 0
    /\ Count(ledger[1].ty, notifications) = 2

(* --------------- the update loop ticked for ever (interface.rs) -------- *)
\* Instants are only compared and subtracted (the schedules drawn are intervals),
\* so every stored instant is kept relative to the instant of the last tick, the
\* two clocks advancing together by 1 .. MaxStep per tick. An instant that lies
\* further back than any comparison made on it can tell is kept at that distance:
\* an end_time or a deadline the last tick has reached at 0, a due instant at the
\* horizon behind which its penalty is 1.0 whatever its age.
Horizon(c) == c.task_timeout + 2 * c.task_timeout_max
RebaseLedger(led, now, floor) ==
    [i \in 1 .. Len(led) |->
        [led[i] EXCEPT !.last_done = Max(@ - now, (0 - floor) - led[i].schedule.interval)]]
RebaseDues(list, now, floor) ==
    [i \in 1 .. Len(list) |-> [list[i] EXCEPT !.when = Max(@ - now, 0 - floor)]]
RebaseTasks(ts, now, floor) ==
    [past |-> RebaseDues(ts.past, now, floor),
     current |-> RebaseDues(ts.current, now, floor),
     upcoming |-> RebaseDues(ts.upcoming, now, floor)]
RebaseTaskAnimation(current, now) ==
    {[c EXCEPT !.end_time = Max(@ - now, 0)] : c \in current}

\* the configuration of the ticking program: two tasks on interval schedules, one
\* with a letter key and one with a digit key, a window of one unit
LiveConfs == {[task_timeout |-> 1, task_timeout_max |-> 1]}
LiveLedgers ==
    {<< Task("Eat", Interval(MaxInterval - 1), 0), Task("Other(stretch)", Interval(0), 0) >>}
LiveEvents == {"none", "e", "1"}

\* the state InterfaceState::new leaves when it succeeds, at instant 0
InitUpdateLive ==
    /\ tz = NoShift /\ schedule = Interval(0) /\ reference = 0 /\ due = Pending
    /\ text = FileIdleSad
    /\ load_result = Load(text)
    /\ anims = Load(text).anims
    /\ get_arg = Idle /\ get_key = Idle /\ get_hops = 0 /\ get_seen = << >>
    /\ get_result = [st |-> "Idle", frames |-> NoFrames]
    /\ lil_guy = LilGuyNew(0)
    /\ idle_animation_time \in ProgramIdleTimes
    /\ lil_call = [tick |-> 0] @@ NoLilCall
    /\ conf \in LiveConfs
    /\ clock = 0
    /\ ledger \in LiveLedgers
    /\ task_threshold = ManagerThreshold(conf)
    /\ tasks = EmptyTasks
    /\ call = [op |-> "none", ty |-> "-", st |-> "Ok"]
    /\ keybinds = << >>
    /\ task_timeout = IfaceTaskTimeout(conf)
    /\ task_timeout_max = IfaceTaskTimeoutMax(conf)
    /\ happiness = 0 /\ mood = "" /\ pressed = {} /\ status = "running"
    /\ failure = "none" /\ terminal = Acquired /\ notifications = << >>
    /\ task_animations = << >> /\ current_task_animation = {}
    /\ task_animation_duration \in TaskAnimationDurations
    /\ rendered = "none"

\* update with an event other than quit (or none), `now` instants after the tick
\* before: the steps of Update in the same order, every instant it stores taken
\* relative to this tick. The parity of the number of updates of the companion is
\* kept (tick), so that a tick that leaves everything as it was is a step all the
\* same.
UpdateLive ==
    \E now \in 1 .. MaxStep, e \in LiveEvents, cols \in ScreenCols :
        LET kb == Keybinds(tasks)
            ty == Pressed(kb, e)
            led == LedgerAfter(ledger, kb, e, now)
            notifs == NotificationsAfter(notifications, ty)
            queue == TaskAnimationsAfter(task_animations, ty)
            r == ManagerTasks(led, task_threshold, now)
            ta == TaskAnimationStep(current_task_animation, queue, now, task_animation_duration)
            h == Happiness(r.val.past, now, task_timeout, task_timeout_max)
            ongoing == {c.ty : c \in ta.current}
            room == RoomBounds(cols)
            floor == Horizon(conf)
            stored == /\ notifications' = notifs \o NotifyTypes(r.val, tasks)
                      /\ tasks' = RebaseTasks(r.val, now, floor)
                      /\ current_task_animation' = RebaseTaskAnimation(ta.current, now)
                      /\ task_animations' = ta.queue
                      /\ happiness' = h
                      /\ mood' = Mood(h)
        IN  /\ status = "running"
            /\ Len(queue) <= MaxQueue
            /\ r.st = "Ok"
            /\ keybinds' = KeybindsAfter(kb, e)
            /\ clock' = 0
            /\ pressed' = ty
            /\ ledger' = RebaseLedger(led, now, floor)
            /\ TickFrame
            /\ \/ /\ NotifyTasks(r.val, tasks) # << >>
                  /\ \E shown \in 0 .. Len(NotifyTasks(r.val, tasks)) :
                        notifications' = notifs \o SubSeq(NotifyTypes(r.val, tasks), 1, shown)
                  /\ status' = "error"
                  /\ failure' = "notify"
                  /\ task_animations' = queue
                  /\ tasks' = RebaseTasks(tasks, now, floor)
                  /\ current_task_animation' = RebaseTaskAnimation(current_task_animation, now)
                  /\ rendered' = "none"
                  /\ terminal' = Drop("error")
                  /\ UNCHANGED <<happiness, mood, lil_guy, lil_call>>
               \/ /\ stored
                  /\ status' = "error"
                  /\ failure' = "size"
                  /\ rendered' = "none"
                  /\ terminal' = Drop("error")
                  /\ UNCHANGED <<lil_guy, lil_call>>
               \/ \E rnd \in IF Select(lil_guy, anims, idle_animation_time, h, ongoing, room,
                                        r.val.past, now, NoRnd).rule = "reroll"
                              THEN RndDraws(idle_animation_time) ELSE {NoRnd} :
                      LET u == LilGuyUpdate(lil_guy, anims, idle_animation_time, h, ongoing,
                                            room, r.val.past, now, rnd)
                      IN  /\ stored
                          /\ u.st = "Ok"
                          /\ lil_guy' = Rebase(u.lg, now)
                          /\ lil_call' = [st |-> u.st, rule |-> u.rule, happiness |-> h,
                                          ongoing_task |-> ongoing, room_bounds |-> room,
                                          wants |-> RebaseDues(r.val.past, now, floor),
                                          now |-> now, tick |-> 1 - lil_call.tick]
                          /\ status' = "running"
                          /\ failure' = "none"
                          /\ rendered' \in {"ok", "error"}
                          /\ terminal' = Drop("running")

NextUpdateLive ==
    \/ UpdatePollError
    \/ UpdateQuit
    \/ UpdateLive

\* `while interface.update(..)?`: the loop calls update again as long as update
\* returned Ok(true); a call that reads quit or fails at the poll ends it, so a
\* loop that runs for ever ticks for ever
SpecUpdateLive == InitUpdateLive /\ [][NextUpdateLive]_vars /\ WF_vars(NextUpdateLive)

\* the type the tick's key press completed, as a sequence of at most one type
Completed == IF pressed' = {} THEN << >> ELSE <<CHOOSE t \in pressed' : TRUE>>
OngoingTypes(current) == {c.ty : c \in current}

\* C32, one tick: the completed type goes to the back of the queue; then either no
\* animation starts (the queue is as it is, the ongoing type is the one before or
\* none) or the type at the front of the queue leaves it and becomes the ongoing
\* one; the signal handed to the companion is the ongoing type, at most one.
C32_Step ==
    LET queue == task_animations \o Completed
    IN  /\ \/ /\ task_animations' = queue
              /\ OngoingTypes(current_task_animation') \subseteq
                     OngoingTypes(current_task_animation)
           \/ /\ queue # << >>
              /\ task_animations' = Tail(queue)
              /\ OngoingTypes(current_task_animation') = {Head(queue)}
        /\ Cardinality(current_task_animation') <= 1
        /\ lil_call' # lil_call =>
              lil_call'.ongoing_task = OngoingTypes(current_task_animation')

\* C32: the types completed by key press are the ongoing-task signal one at a
\* time and in the order of their completion, none dropped and none presented
\* twice (every tick is a step of a first-in first-out queue in front of a single
\* ongoing type), and as long as the ticks go on, time advancing, every queued type
\* eventually is the ongoing one.
C32_QueueInOrder ==
    /\ [][C32_Step]_vars
    /\ \A t \in {"Eat", "Other(stretch)"} :
          InSeq(t, task_animations) ~>
              \/ status # "running"
              \/ (OngoingTypes(current_task_animation) = {t} /\ lil_call.ongoing_task = {t})

\* C32 witness: two different completed types wait in the queue, in the order of
\* their completion, behind a third completion that is the ongoing task and was
\* handed to the companion.
C32_Witness ==
    /\ status = "running"
    /\ task_animations = <<"Eat", "Other(stretch)">>
    /\ OngoingTypes(current_task_animation) = {"Other(stretch)"}
    /\ lil_call.ongoing_task = {"Other(stretch)"}
    /\ pressed = {"Other(stretch)"}

====
